---- MODULE Spec2Model ----
(***************************************************************************)
(* Model of the GalaxyDL archiver (gogdl/archiver.py, gogdl/extractor.py): *)
(* the gen-2 chunk store and its two download paths, the resumable gen-1   *)
(* blob download with its JSON sidecar, and the archive walk over build    *)
(* and depot manifests with the Build Index.                               *)
(*                                                                         *)
(* The specifications that share the module:                               *)
(*   SpecChunk    - chunk pool download and verify-and-download repair     *)
(*   SpecBlob     - blob existence check, block download, sidecar, crashes *)
(*   SpecArchive1 - archive_build of a gen-1 build: manifests, blob, index *)
(*   SpecArchive2 - archive_build of a gen-2 build: manifests, chunks,     *)
(*                  index, by build id and by repository id                *)
(*   SpecValidate, SpecRepair, SpecExtract - the tools run on an archive   *)
(*   SpecSave, SpecChunkWrite - the index file and chunk files, write by   *)
(*                  write                                                  *)
(*   SpecSync     - the build listing and its copy in the Build Index      *)
(*   SpecCodec    - build manifests as they are stored and read back       *)
(*   SpecList     - the listings of both generations merged                *)
(*   SpecOnly     - the manifests-only archive calls                       *)
(*   SpecEncoding - depot manifests served in each encoding, archived and  *)
(*                  extracted                                              *)
(*   SpecDepots   - the depot lists of build manifests as they are walked  *)
(*   SpecIndex    - Build Index documents loaded and saved again           *)
(*   SpecRecords  - metadata sync and archive calls on the same index      *)
(*   SpecPlatforms - archive_build asked for one platform or for both      *)
(*   SpecConfine  - extraction of depot manifests with any record path     *)
(***************************************************************************)
EXTENDS Integers, Sequences, FiniteSets, TLC

VARIABLES
    \* ---- chunk store (chunks/<h0:2>/<h2:4>/<h>) and its download paths
    chunks,          \* chunk name -> payload of the file stored under that name
    chunk_run,       \* "idle", "pool" (_download_v2_chunks) or "repair"
                     \* (verify_and_download_chunks_for_repository)
    chunk_todo,      \* chunks the running call has still to download
    chunk_result     \* result dict of the running (or last) call

VARIABLES
    \* ---- gen-1 blob blobs/<id>/main.bin, its sidecars, and one download run
    blob_data,          \* the bytes of main.bin on the server
    blob_exists,        \* blob_path.exists()
    blob_bytes,         \* the bytes of blob_path on disk
    json,               \* the JSON sidecar main.json
    xml,                \* the XML companion main.xml
    pc,                 \* position of the run: "idle" when no run is in progress
    expected_size,      \* Content-Length of the HEAD response of this run
    existing_chunks,    \* _download_v1_blob_with_resume: existing_chunks
    chunks_to_download, \* _download_v1_blob_with_resume: chunks_to_download
    qi,                 \* index into chunks_to_download of the block in progress
    overall_hash,       \* bytes fed so far to overall_md5 / overall_sha1 / overall_sha256
    incremental_hashes, \* the local incremental_hashes, unset until the first commit
    chunk_data,         \* body of the ranged GET for the block in progress
    blob_outcome,       \* how the last archive step for the blob ended
    torn,               \* blocks whose last write to blob_path stopped part-way
    interrupted_after,  \* a run was stopped when blocks 0..k were in the sidecar: k, else -1
    head_lost           \* some HEAD request so far gave no usable Content-Length

VARIABLES
    \* ---- the archive: manifests on disk, the Build Index, one archiver process
    files,              \* path under the archive root -> content of the file
    database,           \* metadata/archive_database.json
    archived_builds,    \* self.archived_builds: build key -> ArchivedBuild
    archived_manifests, \* self.archived_manifests: the manifest ids it holds
    depot_route,        \* which of the three depot manifest URLs the server answers
    arch_pc,            \* position of the archive call: "idle" when none is running
    arch_target,        \* build_id argument of the running (or last) archive call
    arch_builds,        \* existing_builds still to be walked
    arch_depots,        \* depot manifests of the build still to be processed
    v1_data,            \* v1_depot_manifests_data
    arch_blobs,         \* unique_blob_urls still to be processed
    wrote,              \* kinds of file the running archive call has written
    index_writes,       \* save_database() calls of the running archive call
    blob_starts,        \* _download_v1_blob_with_resume calls of the running archive call
    clean,              \* every request of the running archive call was answered
    second,             \* the call repeats the previous one on a complete store
    fresh,              \* the call started without a blob file on disk
    last_target,        \* build_id argument of the previous archive call
    cache_hits,         \* manifests requested although their target path existed
    cache_overwrites,   \* manifest paths written although they existed
    stored_v2           \* depot manifest id -> path its last successful fetch was saved at

VARIABLES
    \* ---- validator, repair, extractor, and writes in progress
    dirs,            \* the directories that exist directly under the archive root
    validation,      \* result of the last validate_archive_comprehensive call
    repair_stats,    \* classification counts of the running (or last) repair call
    out_files,       \* the extractor's output tree: path -> bytes of the file
    extraction,      \* result of the last extract_build call
    writers,         \* chunk writes in progress: worker -> what it has done so far
    save_pc          \* a save_database call that runs step by step: where it is, the file before it

VARIABLES
    \* ---- what the last calls of the command line returned or asked for
    listed,          \* results['builds'] of the last list_builds call
    blob_path,       \* the path archive_content_for_manifest has computed for the blob
    arch_errors,     \* results['errors'] of the running (or last) archive_build call
    only_call,       \* the last manifests-only call: mode, target, whether every
                     \* request it made was answered, and the errors it returned
    arch_platforms   \* the platforms argument of the running (or last) archive_build call

chunkVars == <<chunks, chunk_run, chunk_todo, chunk_result>>

blobVars == <<blob_data, blob_exists, blob_bytes, json, xml, pc, expected_size,
              existing_chunks, chunks_to_download, qi, overall_hash,
              incremental_hashes, chunk_data, blob_outcome, torn,
              interrupted_after, head_lost>>

archStore == <<files, archived_builds, archived_manifests, depot_route>>

archProc == <<arch_pc, arch_target, arch_builds, arch_depots, v1_data, arch_blobs>>

archLog == <<blob_starts, clean, second, fresh, last_target, cache_hits,
             cache_overwrites, stored_v2>>

archVars == <<archStore, archProc, archLog, database, wrote, index_writes>>

toolVars == <<dirs, validation, repair_stats, out_files, extraction, writers, save_pc>>

callVars == <<listed, blob_path, arch_errors, only_call, arch_platforms>>

vars == <<chunkVars, blobVars, archVars, toolVars, callVars>>

\* the kinds of file written by the running archive call, with one more
Log(kind) == IF arch_pc = "idle" THEN wrote ELSE wrote \cup {kind}

----------------------------------------------------------------------------
(* Gen-2 chunks.  A payload is the byte string of one HTTP response body;  *)
(* MD5 and PayloadSize are tables over the payloads of the model.          *)

ChunkIds == {"aa11", "bb22", "cc33"}

Payloads == {"P1", "P2", "P3", "X1", "T1"}

\* what a chunk file holds while a payload is being written to it: nothing
\* yet (E0), or the first byte of the payload (H1)
PartialContents == {"E0", "H1"}

\* hashlib.md5(data).hexdigest(): P1..P3 are the genuine payloads of the three
\* chunks, X1 is a same-length body with other bytes, T1 a truncated body.
MD5(p) ==
    CASE p = "P1" -> "aa11"
      [] p = "P2" -> "bb22"
      [] p = "P3" -> "cc33"
      [] p = "X1" -> "ee55"
      [] p = "T1" -> "ff66"
      [] p = "E0" -> "d41d"
      [] p = "H1" -> "9a9a"

PayloadSize(p) == IF p = "E0" THEN 0 ELSE IF p \in {"T1", "H1"} THEN 1 ELSE 2

\* compressed_size recorded for a chunk in the depot manifest
CompressedSize(h) == 2

HttpError == "http_error"

ChunkResponses == Payloads \cup {HttpError}

\* archiver.py _save_raw_chunk: open(save_path, 'wb'); write(raw_data)
SaveRawChunk(store, content_id, raw_data) ==
    [h \in (DOMAIN store) \cup {content_id} |->
        IF h = content_id THEN raw_data ELSE store[h]]

\* archiver.py _validate_chunk_exists_with_hash
ValidateChunkExistsWithHash(store, chunk_md5) ==
    /\ chunk_md5 \in DOMAIN store
    /\ MD5(store[chunk_md5]) = chunk_md5

\* archiver.py _verify_chunk_integrity: 'ok', 'missing' or 'corrupted'
VerifyChunkIntegrity(store, chunk_id) ==
    IF chunk_id \notin DOMAIN store THEN "missing"
    ELSE IF CompressedSize(chunk_id) > 0
            /\ PayloadSize(store[chunk_id]) # CompressedSize(chunk_id)
         THEN "corrupted"
         ELSE "ok"

\* archiver.py _download_single_v2_chunk_with_base_url: the store after the
\* call and whether an ArchivedChunk (TRUE) or None (FALSE) is returned
DownloadSingleStore(store, chunk_md5, resp) ==
    IF resp = HttpError THEN store
    ELSE SaveRawChunk(store, chunk_md5, resp)

DownloadSingleOk(chunk_md5, resp) ==
    /\ resp # HttpError
    /\ MD5(resp) = chunk_md5

\* archiver.py _download_chunk: the store after the call and its return value
DownloadChunkStore(store, chunk_id, resp) ==
    IF resp = HttpError THEN store
    ELSE SaveRawChunk(store, chunk_id, resp)

DownloadChunkOk(chunk_id, resp) == resp # HttpError

EmptyStore == [h \in {} |-> "P1"]

\* result dicts: 'chunks_archived' / 'chunks_downloaded' is the number of
\* elements of ok, 'errors' has one message for each element of errors
NoResult == [ok |-> {}, errors |-> {}]

\* the elements of a set in the order the program happens to iterate them
RECURSIVE SetToSeq(_)
SetToSeq(S) ==
    IF S = {} THEN << >>
    ELSE LET x == CHOOSE x \in S : TRUE IN <<x>> \o SetToSeq(S \ {x})

\* the elements of a sequence
Range(seq) == {seq[i] : i \in 1..Len(seq)}

\* metadata/archive_database.json when the file does not exist; complete says
\* that the file holds a whole JSON document, builds is its 'builds' list
NoDatabase == [exists |-> FALSE, complete |-> FALSE, builds |-> << >>]

\* save_database: the file lists the builds held in memory (lines 230-258),
\* each with the ten fields of build_dict, in the order of the dict
SaveDatabase(builds) ==
    [exists |-> TRUE, complete |-> TRUE,
     builds |-> SetToSeq({builds[k] : k \in DOMAIN builds})]

\* save_database() calls are counted while an archive call is running
Counted(n) == IF arch_pc = "idle" THEN n ELSE n + 1

InitChunkVars ==
    /\ chunks = EmptyStore
    /\ chunk_run = "idle"
    /\ chunk_todo = {}
    /\ chunk_result = NoResult

\* no repair call has run, or another call has changed the store since
NoRepair ==
    [done |-> FALSE, total_chunks_found |-> 0, ok |-> {}, missing |-> {},
     corrupted |-> {}, before |-> EmptyStore]

\* the one entry of 'errors' that is about no chunk (line 3036)
SecureLinkError == "secure_links"

\* a scan that queues every referenced chunk, whatever the file system holds
PoolScanAll(chunk_md5s, link_ok) ==
    /\ chunk_run = "idle"
    /\ IF ~link_ok
       THEN /\ chunk_todo' = {}
            /\ chunk_run' = "idle"
            /\ chunk_result' = [NoResult EXCEPT !.errors = {SecureLinkError}]
       ELSE /\ chunk_todo' = chunk_md5s
            /\ chunk_run' = IF chunk_md5s = {} THEN "idle" ELSE "pool"
            /\ chunk_result' = NoResult
    /\ UNCHANGED chunks

\* _download_v2_chunks, lines 2995-3037: scan the referenced chunks against
\* the file system and queue the ones that are missing or corrupted; with
\* chunks to download and no secure link (link_ok false) the call returns
\* with one error and no worker is started
PoolScan(chunk_md5s, link_ok) ==
    /\ chunk_run = "idle"
    /\ LET todo == {h \in chunk_md5s : ~ValidateChunkExistsWithHash(chunks, h)}
       IN IF todo # {} /\ ~link_ok
          THEN /\ chunk_todo' = {}
               /\ chunk_run' = "idle"
               /\ chunk_result' = [NoResult EXCEPT !.errors = {SecureLinkError}]
          ELSE /\ chunk_todo' = todo
               /\ chunk_run' = IF todo = {} THEN "idle" ELSE "pool"
               /\ chunk_result' = NoResult
    /\ UNCHANGED chunks

\* _download_v2_chunks called on its own
PoolStart(chunk_md5s, link_ok) ==
    /\ PoolScan(chunk_md5s, link_ok)
    /\ repair_stats' = NoRepair
    /\ UNCHANGED <<blobVars, archVars>>
    /\ UNCHANGED <<dirs, validation, out_files, extraction, writers, save_pc>>
    /\ UNCHANGED callVars

\* one pool worker runs _download_single_v2_chunk_with_base_url and the main
\* thread books its result (lines 3068-3082)
PoolWorker(h, resp) ==
    /\ chunk_run = "pool"
    /\ h \in chunk_todo
    /\ chunks' = DownloadSingleStore(chunks, h, resp)
    /\ chunk_todo' = chunk_todo \ {h}
    /\ chunk_result' =
          IF DownloadSingleOk(h, resp)
          THEN [chunk_result EXCEPT !.ok = @ \cup {h}]
          ELSE [chunk_result EXCEPT !.errors = @ \cup {h}]
    /\ UNCHANGED chunk_run
    /\ wrote' = IF resp = HttpError THEN wrote ELSE Log("chunk")
    /\ UNCHANGED <<archStore, archProc, archLog, database, index_writes>>
    /\ UNCHANGED blobVars
    /\ UNCHANGED toolVars
    /\ UNCHANGED callVars

\* _download_v2_chunks returns once every future has completed
PoolFinish ==
    /\ chunk_run = "pool"
    /\ chunk_todo = {}
    /\ chunk_run' = "idle"
    /\ UNCHANGED <<chunks, chunk_todo, chunk_result>>
    /\ IF chunk_result.ok # {}
       THEN /\ database' = SaveDatabase(archived_builds)
            /\ index_writes' = Counted(index_writes)
       ELSE UNCHANGED <<database, index_writes>>
    /\ UNCHANGED <<archStore, archProc, archLog, wrote>>
    /\ UNCHANGED blobVars
    /\ UNCHANGED toolVars
    /\ UNCHANGED callVars

\* verify_and_download_chunks_for_repository, lines 828-838 and 900: the
\* results dict before the first chunk is verified; before keeps the chunk
\* store as the call found it
RepairBegin(all_chunks) ==
    /\ chunk_run = "idle"
    /\ chunk_todo' = all_chunks
    /\ chunk_run' = "repair"
    /\ chunk_result' = NoResult
    /\ repair_stats' = [done |-> FALSE, total_chunks_found |-> Cardinality(all_chunks),
                        ok |-> {}, missing |-> {}, corrupted |-> {}, before |-> chunks]
    /\ UNCHANGED chunks

\* verify_and_download_chunks_for_repository, lines 847-906: all_chunks is the
\* union of the chunks of the depot manifests found on disk
RepairStart(all_chunks) ==
    /\ RepairBegin(all_chunks)
    /\ UNCHANGED <<blobVars, archVars>>
    /\ UNCHANGED <<dirs, validation, out_files, extraction, writers, save_pc>>
    /\ UNCHANGED callVars

\* verify_and_download_chunks_for_repository, lines 911-954, for one chunk of
\* all_chunks: classify it, download it when missing or corrupted
RepairChunk(h, resp) ==
    /\ chunk_run = "repair"
    /\ h \in chunk_todo
    /\ chunk_todo' = chunk_todo \ {h}
    /\ IF VerifyChunkIntegrity(chunks, h) = "ok"
       THEN UNCHANGED <<chunks, chunk_result>>
       ELSE /\ chunks' = DownloadChunkStore(chunks, h, resp)
            /\ chunk_result' =
                  IF DownloadChunkOk(h, resp)
                  THEN [chunk_result EXCEPT !.ok = @ \cup {h}]
                  ELSE [chunk_result EXCEPT !.errors = @ \cup {h}]
    /\ repair_stats' =
          CASE VerifyChunkIntegrity(chunks, h) = "ok" ->
                   [repair_stats EXCEPT !.ok = @ \cup {h}]
            [] VerifyChunkIntegrity(chunks, h) = "missing" ->
                   [repair_stats EXCEPT !.missing = @ \cup {h}]
            [] VerifyChunkIntegrity(chunks, h) = "corrupted" ->
                   [repair_stats EXCEPT !.corrupted = @ \cup {h}]
    /\ UNCHANGED chunk_run
    /\ wrote' = IF VerifyChunkIntegrity(chunks, h) = "ok" \/ resp = HttpError
                THEN wrote ELSE Log("chunk")
    /\ UNCHANGED <<archStore, archProc, archLog, database, index_writes>>
    /\ UNCHANGED blobVars
    /\ UNCHANGED <<dirs, validation, out_files, extraction, writers, save_pc>>
    /\ UNCHANGED callVars

\* verify_and_download_chunks_for_repository returns
RepairFinish ==
    /\ chunk_run = "repair"
    /\ chunk_todo = {}
    /\ chunk_run' = "idle"
    /\ repair_stats' = [repair_stats EXCEPT !.done = TRUE]
    /\ UNCHANGED <<chunks, chunk_todo, chunk_result>>
    /\ UNCHANGED <<blobVars, archVars>>
    /\ UNCHANGED <<dirs, validation, out_files, extraction, writers, save_pc>>
    /\ UNCHANGED callVars

----------------------------------------------------------------------------
(* Gen-1 blob download.  Bytes are 0 or 1; a digest is modelled by the     *)
(* byte string it was computed from (no collisions), a running hash object *)
(* by the bytes fed to it so far.                                          *)

\* chunk_size = 100 * 1024 * 1024, scaled to two bytes
ChunkSize == 2

\* largest main.bin on the server, in bytes
MaxBlobSize == 5

Byte == {0, 1}

Blobs == UNION {[1..n -> Byte] : n \in 1..MaxBlobSize}

\* the blobs of the archive walk: one block, and one block and a half
Blobs1 == {<<1, 0>>, <<1, 0, 1>>}

Min(a, b) == IF a < b THEN a ELSE b

\* hashlib.md5/sha1/sha256(data).hexdigest()
Digest(data) == [md5 |-> data]

\* b'\x00' * n
Zeros(n) == [i \in 1..n |-> 0]

\* a block count that rounds up by adding one block to the quotient
TotalChunksQuotientPlusOne(size) == (size \div ChunkSize) + 1

\* total_chunks = (expected_size + chunk_size - 1) // chunk_size
TotalChunks(size) == (size + ChunkSize - 1) \div ChunkSize

\* chunk_start, chunk_end, actual_chunk_size of a block (lines 2550-2552)
ChunkStart(id) == id * ChunkSize

ChunkEnd(id, size) == Min(ChunkStart(id) + ChunkSize - 1, size - 1)

ActualChunkSize(id, size) == ChunkEnd(id, size) - ChunkStart(id) + 1

\* f.seek(start); f.read(n): short at the end of the file
ReadAt(bytes, start, n) ==
    IF start >= Len(bytes) THEN << >>
    ELSE SubSeq(bytes, start + 1, Min(start + n, Len(bytes)))

\* f.seek(required_size - 1); f.write(b'\0') on a file shorter than
\* required_size: the gap reads back as zeros (lines 2594-2598)
ExtendTo(bytes, required_size) ==
    IF Len(bytes) < required_size
    THEN bytes \o Zeros(required_size - Len(bytes))
    ELSE bytes

\* f.write(data) with the seek left out: the data lands at offset 0
WriteAtNoSeek(bytes, start, data) ==
    [i \in 1..Len(bytes) |->
        IF i <= Len(data) THEN data[i] ELSE bytes[i]]

\* f.seek(start); f.write(data) on a file that is long enough
WriteAt(bytes, start, data) ==
    [i \in 1..Len(bytes) |->
        IF i > start /\ i <= start + Len(data) THEN data[i - start] ELSE bytes[i]]

\* a write of data at start that stopped after n bytes
PartialWriteAt(bytes, start, data, n) == WriteAt(bytes, start, SubSeq(data, 1, n))

\* one row of chunk_hashes / existing_chunks
Row(start, end, data) == [from |-> start, to |-> end, digest |-> Digest(data)]

EmptyChunks == [id \in {} |-> Row(0, 0, << >>)]

\* the sidecar before it is first written
NoJson == [exists |-> FALSE, total_size |-> 0, total_chunks |-> 0,
           chunk_hashes |-> EmptyChunks, validated |-> {}, overall |-> Digest(<< >>)]

NoXml == [exists |-> FALSE, chunk_hashes |-> EmptyChunks, overall |-> Digest(<< >>)]

NoHashes == [defined |-> FALSE, fed |-> << >>]

\* sorted(ids) as a sequence
RECURSIVE Sorted(_)
Sorted(ids) ==
    IF ids = {} THEN << >>
    ELSE LET m == CHOOSE x \in ids : \A y \in ids : x <= y
         IN <<m>> \o Sorted(ids \ {m})

\* the bytes read back for the rows of a chunk dict, in ascending id order
\* (lines 2535-2546 and 2743-2754)
RECURSIVE ConcatRows(_, _, _)
ConcatRows(bytes, rows, ids) ==
    IF ids = {} THEN << >>
    ELSE LET m == CHOOSE x \in ids : \A y \in ids : x <= y
         IN ReadAt(bytes, rows[m].from, rows[m].to - rows[m].from + 1)
              \o ConcatRows(bytes, rows, ids \ {m})

\* _parse_existing_checksum_json
ParseExistingChecksumJson(j) == IF j.exists THEN j.chunk_hashes ELSE EmptyChunks

\* _update_json_with_current_chunks, lines 2694-2726: with no chunk dict
\* given, start from the rows of the sidecar and hash every block of the file
\* that has its full length and is not zero-filled
ScanChunks(j, exists, bytes, size) ==
    LET base == ParseExistingChecksumJson(j)
        found == IF exists
                 THEN {id \in 0..(TotalChunks(size) - 1) :
                         LET data == ReadAt(bytes, ChunkStart(id), ActualChunkSize(id, size))
                         IN /\ Len(data) = ActualChunkSize(id, size)
                            /\ data # Zeros(ActualChunkSize(id, size))}
                 ELSE {}
    IN [id \in (DOMAIN base) \cup found |->
          IF id \in found
          THEN Row(ChunkStart(id), ChunkEnd(id, size),
                   ReadAt(bytes, ChunkStart(id), ActualChunkSize(id, size)))
          ELSE base[id]]

\* _update_json_with_current_chunks: the sidecar it writes.  rescan is TRUE
\* when current_chunks is None; inc is the incremental_overall_hashes argument.
UpdateJsonWithCurrentChunks(j, exists, bytes, size, rescan, current_chunks, inc) ==
    LET cc == IF rescan THEN ScanChunks(j, exists, bytes, size) ELSE current_chunks
        overall == IF inc.defined THEN Digest(inc.fed)
                   ELSE IF exists THEN Digest(ConcatRows(bytes, cc, DOMAIN cc))
                   ELSE Digest(<< >>)
    IN [exists |-> TRUE, total_size |-> size, total_chunks |-> TotalChunks(size),
        chunk_hashes |-> cc, validated |-> DOMAIN cc, overall |-> overall]

\* _generate_blob_checksum_xml: FALSE when the file is missing or a block is
\* short, else the rows and overall digest written to main.xml and main.json
ChecksumReadable(exists, bytes, size) ==
    /\ exists
    /\ \A id \in 0..(TotalChunks(size) - 1) :
          Len(ReadAt(bytes, ChunkStart(id), ActualChunkSize(id, size)))
             = ActualChunkSize(id, size)

ChecksumRows(bytes, size) ==
    [id \in 0..(TotalChunks(size) - 1) |->
        Row(ChunkStart(id), ChunkEnd(id, size),
            ReadAt(bytes, ChunkStart(id), ActualChunkSize(id, size)))]

GenerateBlobChecksumJson(j, exists, bytes, size) ==
    IF ChecksumReadable(exists, bytes, size)
    THEN [exists |-> TRUE, total_size |-> size, total_chunks |-> TotalChunks(size),
          chunk_hashes |-> ChecksumRows(bytes, size), validated |-> {},
          overall |-> Digest(ConcatRows(bytes, ChecksumRows(bytes, size),
                                        0..(TotalChunks(size) - 1)))]
    ELSE j

GenerateBlobChecksumXml(x, exists, bytes, size) ==
    IF ChecksumReadable(exists, bytes, size)
    THEN [exists |-> TRUE, chunk_hashes |-> ChecksumRows(bytes, size),
          overall |-> Digest(ConcatRows(bytes, ChecksumRows(bytes, size),
                                        0..(TotalChunks(size) - 1)))]
    ELSE x

\* _download_v1_blob_with_resume, lines 2430-2514: the blocks queued for
\* download.  A block listed in the sidecar is kept when its state is
\* 'validated', or when it is not zero-filled and its digest matches.
NeedsDownload(id, exists, bytes, j, size) ==
    LET rows == ParseExistingChecksumJson(j)
        data == ReadAt(bytes, ChunkStart(id), ActualChunkSize(id, size))
    IN IF id \in DOMAIN rows
       THEN IF id \in j.validated THEN FALSE
            ELSE IF data = Zeros(ActualChunkSize(id, size)) THEN TRUE
            ELSE Digest(data) # rows[id].digest
       ELSE TRUE

ChunksToDownload(exists, bytes, j, size) ==
    IF exists /\ j.exists
    THEN Sorted({id \in 0..(TotalChunks(size) - 1) : NeedsDownload(id, exists, bytes, j, size)})
    ELSE Sorted(0..(TotalChunks(size) - 1))

\* lines 2428-2432: existing_chunks is parsed only when both files exist
ExistingChunks(exists, j) ==
    IF exists /\ j.exists THEN ParseExistingChecksumJson(j) ELSE EmptyChunks

\* lines 2527-2546: the running overall hash pre-loaded with the listed blocks
PreloadOverall(exists, bytes, existing) ==
    IF DOMAIN existing # {} /\ exists
    THEN ConcatRows(bytes, existing, DOMAIN existing)
    ELSE << >>

\* responses of the HEAD request of line 1570
HeadResponses == {"length", "no_length", "error"}

\* responses of a ranged GET: 206/200 with the requested bytes, a status other
\* than 200/206, or a body of another length
GetResponses == {"ok", "bad_status", "bad_length"}

InitBlobVars ==
    /\ blob_exists = FALSE
    /\ blob_bytes = << >>
    /\ json = NoJson
    /\ xml = NoXml
    /\ pc = "idle"
    /\ expected_size = 0
    /\ existing_chunks = EmptyChunks
    /\ chunks_to_download = << >>
    /\ qi = 0
    /\ overall_hash = << >>
    /\ incremental_hashes = NoHashes
    /\ chunk_data = << >>
    /\ blob_outcome = "none"
    /\ torn = {}
    /\ interrupted_after = -1
    /\ head_lost = FALSE

\* the locals of a run are gone once it has returned or the process has ended
RunEnds(outcome) ==
    /\ pc' = "idle"
    /\ blob_outcome' = outcome
    /\ existing_chunks' = EmptyChunks
    /\ chunks_to_download' = << >>
    /\ qi' = 0
    /\ overall_hash' = << >>
    /\ incremental_hashes' = NoHashes
    /\ chunk_data' = << >>

\* the block being downloaded
CurrentChunk == chunks_to_download[qi]

\* archive_content_for_manifest, lines 1549-1600, for one unique blob URL:
\* HEAD, the existence check, and the entry of _download_v1_blob_with_resume
\* up to the first ranged GET (lines 2422-2546)
BeginBlob(head) ==
    /\ pc = "idle"
    /\ LET size == IF head = "length" THEN Len(blob_data) ELSE 0
           queue == ChunksToDownload(blob_exists, blob_bytes, json, size)
       IN /\ expected_size' = size
          /\ head_lost' = (head_lost \/ head # "length")
          /\ IF head = "error"
             THEN /\ RunEnds("error")
                  /\ UNCHANGED <<blob_exists, blob_bytes, json, xml, torn, interrupted_after>>
             ELSE IF blob_exists /\ size > 0 /\ Len(blob_bytes) = size
             THEN /\ RunEnds("skipped")
                  /\ UNCHANGED <<blob_exists, blob_bytes, json, xml, torn, interrupted_after>>
             ELSE IF queue = << >>
             THEN /\ pc' = "checksum"
                  /\ blob_outcome' = "running"
                  /\ UNCHANGED <<blob_exists, blob_bytes, json, xml, existing_chunks,
                                 chunks_to_download, qi, overall_hash,
                                 incremental_hashes, chunk_data, torn, interrupted_after>>
             ELSE /\ pc' = "get"
                  /\ blob_outcome' = "running"
                  /\ existing_chunks' = ExistingChunks(blob_exists, json)
                  /\ chunks_to_download' = queue
                  /\ qi' = 1
                  /\ overall_hash' = PreloadOverall(blob_exists, blob_bytes,
                                                    ExistingChunks(blob_exists, json))
                  /\ incremental_hashes' = NoHashes
                  /\ chunk_data' = << >>
                  /\ UNCHANGED <<blob_exists, blob_bytes, json, xml, torn, interrupted_after>>
    /\ UNCHANGED blob_data

\* the blob step of archive_content_for_manifest on its own
StartBlob(head) ==
    /\ BeginBlob(head)
    /\ UNCHANGED <<chunkVars, archVars>>
    /\ UNCHANGED toolVars
    /\ UNCHANGED callVars

\* lines 2556-2576: the ranged GET of one block
GetChunk(resp) ==
    /\ pc = "get"
    /\ IF resp = "ok"
       THEN /\ chunk_data' = ReadAt(blob_data, ChunkStart(CurrentChunk),
                                    ActualChunkSize(CurrentChunk, expected_size))
            /\ pc' = "extend"
            /\ UNCHANGED <<json, blob_outcome, existing_chunks, chunks_to_download,
                           qi, overall_hash, incremental_hashes>>
       ELSE /\ json' = UpdateJsonWithCurrentChunks(json, blob_exists, blob_bytes,
                           expected_size, TRUE, EmptyChunks, NoHashes)
            /\ RunEnds("failed")
    /\ UNCHANGED <<blob_data, blob_exists, blob_bytes, xml, expected_size, torn,
                   interrupted_after>>
    /\ UNCHANGED <<head_lost, chunkVars>>
    /\ wrote' = IF resp = "ok" THEN wrote ELSE Log("sidecar")
    /\ UNCHANGED <<archStore, archProc, archLog, database, index_writes>>
    /\ UNCHANGED toolVars
    /\ UNCHANGED callVars

\* lines 2585-2598: create the file and extend it to the end of the block
ExtendFile ==
    /\ pc = "extend"
    /\ blob_exists' = TRUE
    /\ blob_bytes' = ExtendTo(blob_bytes, ChunkEnd(CurrentChunk, expected_size) + 1)
    /\ pc' = "write"
    /\ UNCHANGED <<blob_data, json, xml, expected_size, existing_chunks,
                   chunks_to_download, qi, overall_hash, incremental_hashes,
                   chunk_data, blob_outcome, torn, interrupted_after>>
    /\ UNCHANGED <<head_lost, chunkVars>>
    /\ wrote' = Log("blob")
    /\ UNCHANGED <<archStore, archProc, archLog, database, index_writes>>
    /\ UNCHANGED toolVars
    /\ UNCHANGED callVars

\* lines 2600-2603: write the block at its offset
WriteChunk ==
    /\ pc = "write"
    /\ blob_bytes' = WriteAt(blob_bytes, ChunkStart(CurrentChunk), chunk_data)
    /\ torn' = torn \ {CurrentChunk}
    /\ pc' = "record"
    /\ UNCHANGED <<blob_data, blob_exists, json, xml, expected_size, existing_chunks,
                   chunks_to_download, qi, overall_hash, incremental_hashes,
                   chunk_data, blob_outcome, interrupted_after>>
    /\ UNCHANGED <<head_lost, chunkVars>>
    /\ wrote' = Log("blob")
    /\ UNCHANGED <<archStore, archProc, archLog, database, index_writes>>
    /\ UNCHANGED toolVars
    /\ UNCHANGED callVars

\* lines 2605-2612: existing_chunks[chunk_id] = {...}
RecordChunk ==
    /\ pc = "record"
    /\ existing_chunks' =
          [id \in (DOMAIN existing_chunks) \cup {CurrentChunk} |->
              IF id = CurrentChunk
              THEN Row(ChunkStart(id), ChunkEnd(id, expected_size), chunk_data)
              ELSE existing_chunks[id]]
    /\ pc' = "hash"
    /\ UNCHANGED <<blob_data, blob_exists, blob_bytes, json, xml, expected_size,
                   chunks_to_download, qi, overall_hash, incremental_hashes,
                   chunk_data, blob_outcome, torn, interrupted_after>>
    /\ UNCHANGED <<head_lost, chunkVars>>
    /\ UNCHANGED archVars
    /\ UNCHANGED toolVars
    /\ UNCHANGED callVars

\* lines 2614-2626: feed the block to the running hashes and copy them
UpdateHashes ==
    /\ pc = "hash"
    /\ overall_hash' = overall_hash \o chunk_data
    /\ incremental_hashes' = [defined |-> TRUE, fed |-> overall_hash \o chunk_data]
    /\ pc' = "json"
    /\ UNCHANGED <<blob_data, blob_exists, blob_bytes, json, xml, expected_size,
                   existing_chunks, chunks_to_download, qi, chunk_data,
                   blob_outcome, torn, interrupted_after>>
    /\ UNCHANGED <<head_lost, chunkVars>>
    /\ UNCHANGED archVars
    /\ UNCHANGED toolVars
    /\ UNCHANGED callVars

\* lines 2628-2636: write the sidecar for the committed block, next block
CommitChunk ==
    /\ pc = "json"
    /\ json' = UpdateJsonWithCurrentChunks(json, blob_exists, blob_bytes,
                   expected_size, FALSE, existing_chunks, incremental_hashes)
    /\ IF qi < Len(chunks_to_download)
       THEN /\ qi' = qi + 1
            /\ pc' = "get"
       ELSE /\ qi' = qi
            /\ pc' = "final"
    /\ chunk_data' = << >>
    /\ UNCHANGED <<blob_data, blob_exists, blob_bytes, xml, expected_size,
                   existing_chunks, chunks_to_download, overall_hash,
                   incremental_hashes, blob_outcome, torn, interrupted_after>>
    /\ UNCHANGED <<head_lost, chunkVars>>
    /\ wrote' = Log("sidecar")
    /\ UNCHANGED <<archStore, archProc, archLog, database, index_writes>>
    /\ UNCHANGED toolVars
    /\ UNCHANGED callVars

\* lines 2658-2671: the final sidecar update; the download returns True
FinalJson ==
    /\ pc = "final"
    /\ json' = UpdateJsonWithCurrentChunks(json, blob_exists, blob_bytes,
                   expected_size, FALSE, existing_chunks,
                   [defined |-> TRUE, fed |-> overall_hash])
    /\ pc' = "checksum"
    /\ UNCHANGED <<blob_data, blob_exists, blob_bytes, xml, expected_size,
                   existing_chunks, chunks_to_download, qi, overall_hash,
                   incremental_hashes, chunk_data, blob_outcome, torn,
                   interrupted_after>>
    /\ UNCHANGED <<head_lost, chunkVars>>
    /\ wrote' = Log("sidecar")
    /\ UNCHANGED <<archStore, archProc, archLog, database, index_writes>>
    /\ UNCHANGED toolVars
    /\ UNCHANGED callVars

\* archive_content_for_manifest, lines 1601-1630, after the download returned
\* True: _generate_blob_checksum_xml, blob_path.stat(), blobs_archived += 1
AfterDownload ==
    /\ pc = "checksum"
    /\ json' = GenerateBlobChecksumJson(json, blob_exists, blob_bytes, expected_size)
    /\ xml' = GenerateBlobChecksumXml(xml, blob_exists, blob_bytes, expected_size)
    /\ RunEnds(IF blob_exists THEN "archived" ELSE "error")
    /\ UNCHANGED <<blob_data, blob_exists, blob_bytes, expected_size, torn,
                   interrupted_after>>
    /\ UNCHANGED <<head_lost, chunkVars>>
    /\ wrote' = Log("sidecar")
    /\ UNCHANGED <<archStore, archProc, archLog, database, index_writes>>
    /\ UNCHANGED toolVars
    /\ UNCHANGED callVars

\* the file after a block write that stopped after n bytes
TornBytes(n) == PartialWriteAt(blob_bytes, ChunkStart(CurrentChunk), chunk_data, n)

\* positions inside the try block of the download loop (lines 2556-2636)
InLoop == {"get", "extend", "write", "record", "hash", "json"}

\* the highest block listed in the sidecar, -1 when there is none
LastCommitted(j) ==
    IF j.exists /\ DOMAIN j.chunk_hashes # {}
    THEN CHOOSE x \in DOMAIN j.chunk_hashes : \A y \in DOMAIN j.chunk_hashes : y <= x
    ELSE -1

\* the effect on the file of stopping at the current position
StopFile(n) ==
    /\ blob_bytes' = IF pc = "write" THEN TornBytes(n) ELSE blob_bytes
    /\ torn' = IF pc = "write" /\ TornBytes(n)
                     # WriteAt(blob_bytes, ChunkStart(CurrentChunk), chunk_data)
               THEN torn \cup {CurrentChunk} ELSE torn
    /\ UNCHANGED <<blob_data, blob_exists, xml, expected_size>>

\* lines 2638-2647: KeyboardInterrupt inside the loop; the handler writes the
\* sidecar from existing_chunks and the last incremental_hashes and re-raises
Interrupt(n) ==
    /\ pc \in InLoop
    /\ n = 0 \/ (pc = "write" /\ n < Len(chunk_data))
    /\ StopFile(n)
    /\ json' = UpdateJsonWithCurrentChunks(json, blob_exists, blob_bytes',
                   expected_size, FALSE, existing_chunks, incremental_hashes)
    /\ interrupted_after' = IF LastCommitted(json) >= 0 THEN LastCommitted(json)
                            ELSE interrupted_after
    /\ RunEnds("interrupted")
    /\ UNCHANGED <<head_lost, chunkVars>>
    /\ wrote' = IF pc = "write" /\ n > 0
                THEN Log("blob") \cup Log("sidecar") ELSE Log("sidecar")
    /\ UNCHANGED <<archStore, archProc, archLog, database, index_writes>>
    /\ UNCHANGED toolVars
    /\ UNCHANGED callVars

\* lines 2648-2656: an exception of the GET or of a file operation; the
\* handler writes the sidecar the same way and the download returns False
IOError(n) ==
    /\ pc \in {"get", "extend", "write"}
    /\ n = 0 \/ (pc = "write" /\ n < Len(chunk_data))
    /\ StopFile(n)
    /\ json' = UpdateJsonWithCurrentChunks(json, blob_exists, blob_bytes',
                   expected_size, FALSE, existing_chunks, incremental_hashes)
    /\ UNCHANGED interrupted_after
    /\ RunEnds("failed")
    /\ UNCHANGED <<head_lost, chunkVars>>
    /\ wrote' = IF pc = "write" /\ n > 0
                THEN Log("blob") \cup Log("sidecar") ELSE Log("sidecar")
    /\ UNCHANGED <<archStore, archProc, archLog, database, index_writes>>
    /\ UNCHANGED toolVars
    /\ UNCHANGED callVars

\* the process is killed: no handler runs
Kill(n) ==
    /\ pc # "idle"
    /\ n = 0 \/ (pc = "write" /\ n < Len(chunk_data))
    /\ StopFile(n)
    /\ UNCHANGED json
    /\ interrupted_after' = IF LastCommitted(json) >= 0 THEN LastCommitted(json)
                            ELSE interrupted_after
    /\ RunEnds("killed")
    /\ UNCHANGED <<head_lost, chunkVars>>
    /\ wrote' = IF pc = "write" /\ n > 0 THEN Log("blob") ELSE wrote
    /\ UNCHANGED <<archStore, archProc, archLog, database, index_writes>>
    /\ UNCHANGED toolVars
    /\ UNCHANGED callVars

----------------------------------------------------------------------------
(* The archive walk.  URLs and paths are strings; paths are relative to    *)
(* the archive root.  A document is named by a string, and the tables      *)
(* below give what the archiver reads out of it once it is parsed.         *)

\* pat in s
Contains(s, pat) ==
    \E i \in 1..(Len(s) - Len(pat) + 1) : SubSeq(s, i, i + Len(pat) - 1) = pat

\* s.find(pat, from - 1) + 1: the first position of pat at or after from, else 0
Find(s, pat, from) ==
    LET hits == {i \in from..(Len(s) - Len(pat) + 1) :
                    SubSeq(s, i, i + Len(pat) - 1) = pat}
    IN IF hits = {} THEN 0 ELSE CHOOSE i \in hits : \A j \in hits : i <= j

\* s.split(pat)[1] of a string that contains pat
SplitSecond(s, pat) ==
    LET a == Find(s, pat, 1) + Len(pat)
        b == Find(s, pat, a)
    IN SubSeq(s, a, IF b = 0 THEN Len(s) ELSE b - 1)

\* s.split('/')[-1]
LastSegment(s) ==
    LET slashes == {i \in 1..Len(s) : SubSeq(s, i, i) = "/"}
        last == IF slashes = {} THEN 0
                ELSE CHOOSE i \in slashes : \A j \in slashes : j <= i
    IN SubSeq(s, last + 1, Len(s))

\* Path.parent as a string, with its trailing slash
ParentDir(path) == SubSeq(path, 1, Len(path) - Len(LastSegment(path)))

\* Path.suffix: from the last dot of the name, when that dot is not its first character
PathSuffix(path) ==
    LET name == LastSegment(path)
        dots == {i \in 2..Len(name) : SubSeq(name, i, i) = "."}
    IN IF dots = {} THEN ""
       ELSE SubSeq(name, CHOOSE i \in dots : \A j \in dots : j <= i, Len(name))

\* Path.with_suffix(suffix)
WithSuffix(path, suffix) ==
    SubSeq(path, 1, Len(path) - Len(PathSuffix(path))) \o suffix

\* manifest_id[0:2] + "/" + manifest_id[2:4] + "/" + manifest_id
GalaxyPath(manifest_id) ==
    IF Contains(manifest_id, "/") THEN manifest_id
    ELSE SubSeq(manifest_id, 1, Min(2, Len(manifest_id))) \o "/"
         \o SubSeq(manifest_id, 3, Min(4, Len(manifest_id))) \o "/" \o manifest_id

\* constants.GOG_CDN and constants.GOG_MANIFESTS_COLLECTOR
GOG_CDN == "https://gog-cdn-fastly.gog.com"

GOG_MANIFESTS_COLLECTOR == "https://downloadable-manifests-collector.gog.com"

\* constants.GOG_CONTENT_SYSTEM, the host of the builds API
GOG_CONTENT_SYSTEM == "https://content-system.gog.com"

\* _save_raw_build_manifest: where the raw file goes, where its prettified
\* copy goes, and whether the method raises after writing the raw file
\* (version is unbound at line 324 when no branch before line 309 was taken)
SaveRawBuildManifest(cdn_url) ==
    LET known == Contains(cdn_url, "/v1/") \/ Contains(cdn_url, "/v2/")
                 \/ (Contains(cdn_url, "downloadable-manifests-collector.gog.com")
                     /\ Contains(cdn_url, "/manifests/builds/"))
        save_path ==
            IF Contains(cdn_url, "/v1/")
            THEN IF Contains(cdn_url, "/v1/manifests/")
                 THEN "builds/v1/manifests/" \o SplitSecond(cdn_url, "/v1/manifests/")
                 ELSE "builds/v1/" \o LastSegment(cdn_url)
            ELSE IF Contains(cdn_url, "/v2/")
            THEN "builds/v2/" \o SplitSecond(cdn_url, "/v2/")
            ELSE IF known
            THEN "builds/v2/builds/" \o SplitSecond(cdn_url, "/manifests/builds/")
            ELSE "builds/" \o LastSegment(cdn_url)
        json_path ==
            IF Contains(cdn_url, "/v1/") /\ PathSuffix(save_path) = ".json"
            THEN WithSuffix(save_path, ".pretty.json")
            ELSE WithSuffix(save_path, ".json")
    IN [save_path |-> save_path, json_path |-> json_path, raises |-> ~known]

\* _save_raw_depot_manifest: the path the raw file is written to
SaveRawDepotManifest(cdn_url) ==
    IF Contains(cdn_url, "/v1/")
    THEN "manifests/v1/" \o SplitSecond(cdn_url, "/v1/")
    ELSE IF Contains(cdn_url, "/v2/")
    THEN "manifests/v2/" \o SplitSecond(cdn_url, "/v2/")
    ELSE "manifests/" \o LastSegment(cdn_url)

\* the two places a gen-2 depot manifest is looked up at
DepotsPath(manifest_id) == "manifests/v2/depots/" \o GalaxyPath(manifest_id)

MetaPath(manifest_id) == "manifests/v2/meta/" \o GalaxyPath(manifest_id)

NoPath == "None"

\* _download_v2_depot_manifest_only: the on-disk check before any request
ManifestOnlyExists(fs, manifest_id) ==
    DepotsPath(manifest_id) \in DOMAIN fs \/ MetaPath(manifest_id) \in DOMAIN fs

\* _extract_chunks_from_depot_manifest: the depot manifest file it reads
ChunkScanPath(fs, manifest_id) ==
    IF DepotsPath(manifest_id) \in DOMAIN fs THEN DepotsPath(manifest_id)
    ELSE IF MetaPath(manifest_id) \in DOMAIN fs THEN MetaPath(manifest_id)
    ELSE NoPath

\* _validate_v2_depot_manifest: the depot manifest file it reads
ValidatorPath(fs, manifest_id) ==
    IF DepotsPath(manifest_id) \in DOMAIN fs THEN DepotsPath(manifest_id)
    ELSE IF MetaPath(manifest_id) \in DOMAIN fs THEN MetaPath(manifest_id)
    ELSE NoPath

\* extractor.py _find_v2_manifest
FindV2Manifest(fs, manifest_id) ==
    IF Len(manifest_id) < 4 THEN NoPath
    ELSE IF MetaPath(manifest_id) \in DOMAIN fs THEN MetaPath(manifest_id)
    ELSE NoPath

\* the three URLs _archive_v2_depot_manifest_and_chunks tries, in order
DepotUrlsToTry(galaxy_path) ==
    << GOG_MANIFESTS_COLLECTOR \o "/manifests/depots/" \o galaxy_path,
       GOG_CDN \o "/content-system/v2/meta/" \o galaxy_path,
       GOG_MANIFESTS_COLLECTOR \o "/depots/" \o galaxy_path >>

\* the URL _download_v1_depot_manifest_only requests
V1DepotUrl(game_id, platform, repository_id, manifest_id) ==
    GOG_CDN \o "/content-system/v1/manifests/" \o game_id \o "/" \o platform
    \o "/" \o repository_id \o "/" \o manifest_id

\* the URL _archive_repository requests for a gen-2 repository
V2RepositoryUrl(repository_id) ==
    GOG_MANIFESTS_COLLECTOR \o "/manifests/builds/" \o GalaxyPath(repository_id)

\* the product, the platform and the builds the server lists for it
GameId == "1207658930"

Platform == "windows"

NoValue == "None"

\* GET .../products/<game_id>/os/<platform>/builds[?generation=2]: the items.
\* Build B3 is listed in both generations.
BuildsItems(generation) ==
    IF generation = 1
    THEN {[build_id |-> "B1",
           link |-> GOG_CDN \o "/content-system/v1/manifests/" \o GameId \o "/"
                    \o Platform \o "/R1/repository.json",
           legacy_build_id |-> "R1"],
          [build_id |-> "B3",
           link |-> GOG_CDN \o "/content-system/v1/manifests/" \o GameId \o "/"
                    \o Platform \o "/R3/repository.json",
           legacy_build_id |-> "R3"]}
    ELSE {[build_id |-> "B2",
           link |-> GOG_CDN \o "/content-system/v2/meta/" \o GalaxyPath("b2c3"),
           legacy_build_id |-> NoValue],
          [build_id |-> "B3",
           link |-> GOG_CDN \o "/content-system/v2/meta/" \o GalaxyPath("b3d4"),
           legacy_build_id |-> NoValue]}

\* the gen-2 repository id archive_build is given in repository mode
RepositoryId == "b2c3"

\* a gen-2 repository whose build manifest has a depots entry without a
\* manifest field
RepositoryIdRedist == "c4d5"

\* the document the server answers a build manifest URL with
BuildDoc(url) ==
    IF Contains(url, "/R3/") THEN "repository_R3"
    ELSE IF Contains(url, "/v1/") THEN "repository_R1"
    ELSE IF Contains(url, RepositoryIdRedist) THEN "build_c4d5"
    ELSE "build_b2c3"

\* manifest_data.get('version', 2)
DocVersion(doc) == IF doc \in {"repository_R1", "repository_R3"} THEN 1 ELSE 2

\* whether the body is zlib-compressed (gen 2) or plain JSON (gen 1)
DocCompressed(doc) == doc \notin {"repository_R1", "repository_R3"}

\* the entries of depots (gen 2) or product.depots (gen 1) of a build
\* manifest, in order: the manifest field of each, NoValue for an entry that
\* has none (a redistributable)
DocDepotEntries(doc) ==
    CASE doc = "repository_R1" -> <<[manifest |-> "m1.json"], [manifest |-> "m2.json"]>>
      [] doc = "repository_R3" -> <<[manifest |-> "m1.json"], [manifest |-> NoValue],
                                    [manifest |-> "m2.json"]>>
      [] doc = "build_c4d5" -> <<[manifest |-> "d1e2"], [manifest |-> NoValue],
                                 [manifest |-> "f3a4"]>>
      [] OTHER -> <<[manifest |-> "d1e2"], [manifest |-> "f3a4"]>>

\* offlineDepot.manifest of a build manifest, NoValue when it has none
DocOfflineDepot(doc) ==
    CASE doc = "repository_R3" -> "off.json"
      [] doc = "build_c4d5" -> "0ff1"
      [] OTHER -> NoValue

\* 'manifest' in depot
HasManifest(depot) == depot.manifest # NoValue

\* the depot manifest ids a build manifest lists, in order
DocDepots(doc) ==
    LET depots == SelectSeq(DocDepotEntries(doc), HasManifest)
    IN [i \in 1..Len(depots) |-> depots[i].manifest]

\* archive_content_for_manifest, lines 1455-1500, with no
\* specific_manifest_id: the depot manifests to process.  The gen-2 loop
\* reads depot['manifest'] of every entry, which raises KeyError for an
\* entry without the field; the gen-1 loop takes the entries that have it.
\* offlineDepot is logged and left out.
DepotManifests(version, build_manifest) ==
    IF version = 2
    THEN IF \E i \in 1..Len(DocDepotEntries(build_manifest)) :
               ~HasManifest(DocDepotEntries(build_manifest)[i])
         THEN [raises |-> TRUE, depot_manifests |-> << >>]
         ELSE [raises |-> FALSE,
               depot_manifests |-> [i \in 1..Len(DocDepotEntries(build_manifest)) |->
                                       DocDepotEntries(build_manifest)[i].manifest]]
    ELSE [raises |-> FALSE, depot_manifests |-> DocDepots(build_manifest)]

\* the document the server holds for a depot manifest id
DepotDoc(manifest_id) ==
    CASE manifest_id = "m1.json" -> "depot_m1"
      [] manifest_id = "m2.json" -> "depot_m2"
      [] manifest_id = "d1e2" -> "depot_d1e2"
      [] manifest_id = "f3a4" -> "depot_f3a4"

\* the url fields of the file records of a gen-1 depot manifest
DocBlobUrls(doc) ==
    IF doc \in {"depot_m1", "depot_m2"} THEN <<"/windows/R1/main.bin">> ELSE << >>

\* the compressedMd5 fields of the chunks of a gen-2 depot manifest
DocChunks(doc) ==
    CASE doc = "depot_d1e2" -> {"aa11", "bb22"}
      [] doc = "depot_f3a4" -> {"bb22"}
      [] OTHER -> {}

\* f"{game_id}_{build_id}_{platform}"
BuildKey(game_id, build_id, platform) == game_id \o "_" \o build_id \o "_" \o platform

\* open(path, 'wb') / open(path, 'w'): create or replace the file
WriteFile(fs, path, content) == (path :> content) @@ fs

NoFiles == [q \in {} |-> [doc |-> "", form |-> ""]]

NoBuilds == [k \in {} |-> [game_id |-> "", build_id |-> "", build_hash |-> "",
                           platform |-> "", version |-> 0, archive_path |-> "",
                           cdn_url |-> "", repository_id |-> "", version_name |-> "",
                           tags |-> {}]]

NoData == [m \in {} |-> ""]

\* _archive_manifest: the files after _save_raw_build_manifest has run
ArchiveManifestFiles(fs, cdn_url, doc, form) ==
    LET saved == SaveRawBuildManifest(cdn_url)
        raw == WriteFile(fs, saved.save_path, [doc |-> doc, form |-> form])
    IN IF saved.raises THEN raw
       ELSE WriteFile(raw, saved.json_path, [doc |-> doc, form |-> "pretty"])

\* hashlib.sha256(raw_data).hexdigest(): the digest is modelled by the bytes
\* it was computed from
Sha256(raw_data) == [sha256 |-> raw_data]

\* the bytes of a build manifest document: as the server sends them ("raw"),
\* as json.dumps writes the parsed document ("dumps"), as json.dump with
\* indent=2 writes it ("pretty")
DocBytes(doc, form) == [doc |-> doc, form |-> form]

\* _archive_manifest: the ArchivedBuild it creates
ArchiveManifestRecord(game_id, build_id, platform, doc, cdn_url, raw_data, version_name, tags, repository_id) ==
    [game_id |-> game_id, build_id |-> build_id, build_hash |-> Sha256(raw_data),
     platform |-> platform, version |-> DocVersion(doc),
     archive_path |-> SaveRawBuildManifest(cdn_url).save_path,
     cdn_url |-> cdn_url, repository_id |-> repository_id,
     version_name |-> version_name, tags |-> tags]

\* self.archived_builds[build_key] = archived_build
PutBuild(builds, rec) ==
    LET key == BuildKey(rec.game_id, rec.build_id, rec.platform)
    IN [k \in (DOMAIN builds) \cup {key} |-> IF k = key THEN rec ELSE builds[k]]

\* the fields of ArchivedBuild that have no default value and that
\* load_database does not fill in (lines 70-84, 194-204)
RequiredFields ==
    {"game_id", "build_id", "build_hash", "platform", "version", "archive_path", "cdn_url"}

\* the fields of ArchivedBuild
ArchivedBuildFields ==
    RequiredFields \cup {"timestamp", "dependencies", "manifests_referenced",
                         "repository_id", "version_name", "tags"}

\* load_database, lines 184-188: the keys of a build_data dict after the
\* legacy keys chunks_referenced and manifest_hash are renamed
RenamedKeys(build_data) ==
    {IF f = "chunks_referenced" THEN "manifests_referenced"
     ELSE IF f = "manifest_hash" THEN "build_hash" ELSE f : f \in DOMAIN build_data}

\* ArchivedBuild(**build_data) raises TypeError when a field without default
\* is missing or a key is not a field of the class
BuildDataRaises(build_data) ==
    \/ ~(RequiredFields \subseteq RenamedKeys(build_data))
    \/ ~(RenamedKeys(build_data) \subseteq ArchivedBuildFields)

\* load_database, lines 184-206: the ArchivedBuild of a build_data dict that
\* does not raise; manifest_hash, when present, becomes build_hash
ParseBuildData(build_data) ==
    [game_id |-> build_data.game_id, build_id |-> build_data.build_id,
     build_hash |-> IF "manifest_hash" \in DOMAIN build_data
                    THEN build_data.manifest_hash ELSE build_data.build_hash,
     platform |-> build_data.platform, version |-> build_data.version,
     archive_path |-> build_data.archive_path, cdn_url |-> build_data.cdn_url,
     repository_id |-> IF "repository_id" \in DOMAIN build_data
                       THEN build_data.repository_id ELSE NoValue,
     version_name |-> IF "version_name" \in DOMAIN build_data
                      THEN build_data.version_name ELSE "",
     tags |-> IF "tags" \in DOMAIN build_data THEN build_data.tags ELSE {}]

\* load_database, lines 182-206: the loop over data['builds'] inside the
\* try block; an exception ends the loop, the builds stored so far stay
RECURSIVE LoadBuilds(_, _)
LoadBuilds(rows, builds) ==
    IF rows = << >> THEN builds
    ELSE IF BuildDataRaises(Head(rows)) THEN builds
    ELSE LoadBuilds(Tail(rows), PutBuild(builds, ParseBuildData(Head(rows))))

\* load_database: the builds of the file, keyed again; the file never has
\* manifests.  json.load raises on a file that is not a whole document, the
\* handler at line 226 logs it, and no build is loaded
LoadDatabase(db) ==
    IF ~db.exists \/ ~db.complete THEN NoBuilds
    ELSE LoadBuilds(db.builds, NoBuilds)

\* list_builds, lines 4292-4298: the generation of a build by its link, 0
\* for None
LinkVersion(link) ==
    IF Contains(link, "/v1/manifests/") THEN 1
    ELSE IF Contains(link, "/v2/meta/") THEN 2
    ELSE 0

\* list_builds, lines 4300-4313: build_info of one item of a listing
BuildInfo(build, gen) ==
    [build_id |-> build.build_id, platform |-> Platform, link |-> build.link,
     generation_queried |-> gen, version |-> LinkVersion(build.link),
     version_name |-> build.version_name, tags |-> build.tags,
     legacy_build_id |-> build.legacy_build_id]

\* the merge without the precedence test: a later item always replaces
MergeListingLastWins(builds_by_id, items, gen) ==
    LET ids == {b.build_id : b \in items}
        item(k) == CHOOSE b \in items : b.build_id = k
    IN [k \in (DOMAIN builds_by_id) \cup ids |->
           IF k \in ids THEN BuildInfo(item(k), gen) ELSE builds_by_id[k]]

\* list_builds, lines 4287-4326: the items of one listing are put into
\* builds_by_id; an item whose build id is there already replaces the entry
\* only when its link is a /v1/manifests/ link
MergeListing(builds_by_id, items, gen) ==
    LET ids == {b.build_id : b \in items}
        item(k) == CHOOSE b \in items : b.build_id = k
    IN [k \in (DOMAIN builds_by_id) \cup ids |->
           IF k \in ids /\ (k \notin DOMAIN builds_by_id
                             \/ LinkVersion(item(k).link) = 1)
           THEN BuildInfo(item(k), gen)
           ELSE builds_by_id[k]]

NoBuildInfo ==
    [k \in {} |-> [build_id |-> "", platform |-> "", link |-> "",
                   generation_queried |-> 0, version |-> 0, version_name |-> "",
                   tags |-> {}, legacy_build_id |-> ""]]

\* list_builds for one platform, lines 4257-4333: the listings of the
\* generations asked for (0 stands for None: both, generation 1 first) are
\* merged; a listing whose request fails is left out
ListBuilds(items1, items2, ok1, ok2, generation) ==
    LET after1 == IF generation \in {0, 1} /\ ok1
                  THEN MergeListing(NoBuildInfo, items1, 1) ELSE NoBuildInfo
        after2 == IF generation \in {0, 2} /\ ok2
                  THEN MergeListing(after1, items2, 2) ELSE after1
    IN {after2[k] : k \in DOMAIN after2}

\* the items of a listing with the version name and the tags the server
\* reports for them
ApiItems(generation, version_name, tags) ==
    {[build_id |-> b.build_id, link |-> b.link, legacy_build_id |-> b.legacy_build_id,
      version_name |-> version_name, tags |-> tags] : b \in BuildsItems(generation)}

\* sync_build_metadata, lines 4403-4413 and 4424-4434: the repository id
\* read out of a link
LinkRepositoryId(cdn_url) ==
    IF Contains(cdn_url, "/v1/manifests/")
    THEN IF LastSegment(cdn_url) = "repository.json"
         THEN LastSegment(SubSeq(ParentDir(cdn_url), 1, Len(ParentDir(cdn_url)) - 1))
         ELSE NoValue
    ELSE IF Contains(cdn_url, "/v2/meta/") THEN LastSegment(cdn_url)
    ELSE NoValue

\* sync_build_metadata, lines 4385-4417: an ArchivedBuild with the tags, the
\* version name and the repository id it lacks taken from the listing
SyncExisting(existing_build, api_build) ==
    [existing_build EXCEPT
        !.tags = IF @ = {} THEN api_build.tags ELSE @,
        !.version_name = IF @ = "" THEN api_build.version_name ELSE @,
        !.repository_id = IF @ \in {NoValue, ""}
                             /\ LinkRepositoryId(api_build.link) # NoValue
                          THEN LinkRepositoryId(api_build.link) ELSE @]

\* sync_build_metadata, lines 4419-4454: the ArchivedBuild added for a
\* listed build the archive does not hold
SyncNew(game_id, api_build) ==
    [game_id |-> game_id, build_id |-> api_build.build_id, build_hash |-> "",
     platform |-> api_build.platform, version |-> api_build.version,
     archive_path |-> "", cdn_url |-> api_build.link,
     repository_id |-> LinkRepositoryId(api_build.link),
     version_name |-> api_build.version_name, tags |-> api_build.tags]

\* sync_build_metadata: archived_builds after the loop over the listed builds
SyncBuilds(builds, game_id, api_builds) ==
    LET key(b) == BuildKey(game_id, b.build_id, b.platform)
        listed_keys == {key(b) : b \in api_builds}
        api(k) == CHOOSE b \in api_builds : key(b) = k
    IN [k \in (DOMAIN builds) \cup listed_keys |->
           IF k \notin listed_keys THEN builds[k]
           ELSE IF k \in DOMAIN builds THEN SyncExisting(builds[k], api(k))
           ELSE SyncNew(game_id, api(k))]

\* archive_build, lines 4621-4625: the builds already held for the target
ExistingBuilds(build_id) ==
    {archived_builds[k] : k \in {k \in DOMAIN archived_builds :
        /\ archived_builds[k].game_id = GameId
        /\ archived_builds[k].build_id = build_id}}

\* the blob urls of the file records, one entry for every record
AllBlobUrls(data) ==
    LET ids == SetToSeq(DOMAIN data)
        F[i \in 0..Len(ids)] == IF i = 0 THEN << >> ELSE F[i - 1] \o DocBlobUrls(data[ids[i]])
    IN F[Len(ids)]

\* archive_content_for_manifest, lines 1539-1544: unique_blob_urls
UniqueBlobUrls(data) ==
    SetToSeq(UNION {Range(DocBlobUrls(data[m])) : m \in DOMAIN data})

\* whether everything the target build refers to is in the store already
StoreCompleteFor(build_id) ==
    \E k \in DOMAIN archived_builds :
        LET b == archived_builds[k] IN
        /\ b.build_id = build_id
        /\ b.archive_path \in DOMAIN files
        /\ \A m \in Range(DocDepots(files[b.archive_path].doc)) :
              IF b.version = 2
              THEN /\ m \in DOMAIN stored_v2
                   /\ stored_v2[m] \in DOMAIN files
                   /\ \A h \in DocChunks(DepotDoc(m)) :
                          ValidateChunkExistsWithHash(chunks, h)
              ELSE /\ SaveRawDepotManifest(V1DepotUrl(b.game_id, b.platform,
                                           b.repository_id, m)) \in DOMAIN files
                   /\ blob_exists
                   /\ Len(blob_bytes) = Len(blob_data)

InitArchiveVars ==
    /\ files = NoFiles
    /\ database = NoDatabase
    /\ archived_builds = NoBuilds
    /\ archived_manifests = {}
    /\ arch_pc = "idle"
    /\ arch_target = NoValue
    /\ arch_builds = << >>
    /\ arch_depots = << >>
    /\ v1_data = NoData
    /\ arch_blobs = << >>
    /\ wrote = {}
    /\ index_writes = 0
    /\ blob_starts = 0
    /\ clean = TRUE
    /\ second = FALSE
    /\ fresh = TRUE
    /\ last_target = NoValue
    /\ cache_hits = {}
    /\ cache_overwrites = {}
    /\ stored_v2 = NoData

\* what is noted when an archive call starts
StartLog(target) ==
    /\ index_writes' = 0
    /\ blob_starts' = 0
    /\ second' = (last_target = target /\ StoreCompleteFor(target))
    /\ fresh' = ~blob_exists
    /\ UNCHANGED <<last_target, stored_v2>>

\* archive_build in build-id mode, lines 4601-4636: look for the target in
\* archived_builds, whatever the platform of a record; discover its manifest
\* on the platforms asked for when no record is there
ArchiveBuild(build_id, platforms) ==
    /\ arch_pc = "idle"
    /\ pc = "idle"
    /\ chunk_run = "idle"
    /\ arch_target' = build_id
    /\ arch_platforms' = platforms
    /\ arch_builds' = SetToSeq(ExistingBuilds(build_id))
    /\ arch_pc' = IF ExistingBuilds(build_id) = {} THEN "manifests" ELSE "content"
    /\ StartLog(build_id)
    /\ wrote' = {}
    /\ clean' = TRUE
    /\ cache_hits' = {}
    /\ cache_overwrites' = {}
    /\ UNCHANGED <<arch_depots, v1_data, arch_blobs, archStore, database>>
    /\ UNCHANGED <<chunkVars, blobVars>>
    /\ UNCHANGED toolVars
    /\ arch_errors' = {}
    /\ UNCHANGED <<listed, blob_path, only_call>>

\* the second platform a build is asked for on
OtherPlatform == "osx"

\* GET .../products/<game_id>/os/<platform>/builds[?generation=2]: the items
\* for a platform.  Build B2 is also listed for osx, with its own manifest
PlatformItems(platform, generation) ==
    IF platform = Platform THEN BuildsItems(generation)
    ELSE IF generation = 2
    THEN {[build_id |-> "B2",
           link |-> GOG_CDN \o "/content-system/v2/meta/" \o GalaxyPath("e5f6"),
           legacy_build_id |-> NoValue]}
    ELSE {}

\* whether the server lists the build for the platform in a generation
ListedOn(build_id, platform) ==
    \E generation \in {1, 2} :
        \E b \in PlatformItems(platform, generation) : b.build_id = build_id

\* archive_build_manifests, lines 528-593, one round of the loop over the
\* platforms: list the builds of generation 1, then 2, fetch the manifest of
\* the target build, _archive_manifest.  acc holds the files, the builds, the
\* list archived and what the call has noted so far
ManifestsOfPlatform(acc, build_id, platform, list1_ok, list2_ok, link_ok) ==
    LET in1 == list1_ok /\ \E b \in PlatformItems(platform, 1) : b.build_id = build_id
        in2 == ~in1 /\ list2_ok
               /\ \E b \in PlatformItems(platform, 2) : b.build_id = build_id
        target_build == CHOOSE b \in PlatformItems(platform, IF in1 THEN 1 ELSE 2) :
                            in1 \/ in2 => b.build_id = build_id
        key == BuildKey(GameId, build_id, platform)
        doc == BuildDoc(target_build.link)
        form == IF DocCompressed(doc) THEN "raw" ELSE "dumps"
        saved == SaveRawBuildManifest(target_build.link)
        rec == ArchiveManifestRecord(GameId, build_id, platform, doc,
                                     target_build.link, DocBytes(doc, form), "", {},
                                     target_build.legacy_build_id)
        known == (in1 \/ in2) /\ key \in DOMAIN acc.archived_builds
        fetched == (in1 \/ in2) /\ ~known /\ link_ok
    IN [files |-> IF fetched
                  THEN ArchiveManifestFiles(acc.files, target_build.link, doc, form)
                  ELSE acc.files,
        archived_builds |-> IF fetched /\ ~saved.raises
                            THEN PutBuild(acc.archived_builds, rec)
                            ELSE acc.archived_builds,
        archived |-> IF known THEN Append(acc.archived, acc.archived_builds[key])
                     ELSE IF fetched /\ ~saved.raises THEN Append(acc.archived, rec)
                     ELSE acc.archived,
        wrote |-> IF fetched THEN acc.wrote \cup {"build_manifest"} ELSE acc.wrote,
        cache_hits |-> IF (in1 \/ in2) /\ ~known /\ saved.save_path \in DOMAIN acc.files
                       THEN acc.cache_hits \cup {saved.save_path} ELSE acc.cache_hits,
        cache_overwrites |-> IF fetched /\ saved.save_path \in DOMAIN acc.files
                             THEN acc.cache_overwrites \cup {saved.save_path}
                             ELSE acc.cache_overwrites,
        clean |-> (acc.clean /\ list1_ok /\ (in1 \/ list2_ok) /\ (known \/ fetched))]

\* archive_build_manifests, line 528: the loop over the platforms
ManifestsOfPlatforms(acc, build_id, platforms, list1_ok, list2_ok, link_ok) ==
    LET F[i \in 0..Len(platforms)] ==
            IF i = 0 THEN acc
            ELSE ManifestsOfPlatform(F[i - 1], build_id, platforms[i], list1_ok,
                                     list2_ok, link_ok)
    IN F[Len(platforms)]

\* archive_build_manifests, lines 521-597, as archive_build calls it: for
\* every platform asked for, list the builds of generation 1, then 2, fetch
\* the manifest of the target build, _archive_manifest; save_database when
\* a build was archived or found
ArchiveBuildManifests(list1_ok, list2_ok, link_ok) ==
    /\ arch_pc = "manifests"
    /\ LET start == [files |-> files, archived_builds |-> archived_builds,
                     archived |-> << >>, wrote |-> wrote, cache_hits |-> cache_hits,
                     cache_overwrites |-> cache_overwrites, clean |-> clean]
       IN \E call \in {ManifestsOfPlatforms(start, arch_target, SetToSeq(arch_platforms),
                                            list1_ok, list2_ok, link_ok)} :
          /\ files' = call.files
          /\ archived_builds' = call.archived_builds
          /\ arch_builds' = call.archived
          /\ IF call.archived # << >>
             THEN /\ database' = SaveDatabase(archived_builds')
                  /\ index_writes' = index_writes + 1
             ELSE UNCHANGED <<database, index_writes>>
          /\ wrote' = call.wrote
          /\ cache_hits' = call.cache_hits
          /\ cache_overwrites' = call.cache_overwrites
          /\ clean' = call.clean
    /\ arch_pc' = "content"
    /\ UNCHANGED <<arch_target, arch_depots, v1_data, arch_blobs, archived_manifests,
                   depot_route, blob_starts, second, fresh, last_target, stored_v2>>
    /\ UNCHANGED <<chunkVars, blobVars>>
    /\ UNCHANGED toolVars
    /\ UNCHANGED callVars

\* archive_build in repository mode, _archive_repository for a gen-2
\* repository (lines 4733-4751, 4787-4831): GET the repository manifest and
\* _archive_manifest it under build_id = repository_id
ArchiveRepository(repository_id, ok) ==
    /\ arch_pc = "idle"
    /\ pc = "idle"
    /\ chunk_run = "idle"
    /\ LET repository_url == V2RepositoryUrl(repository_id)
           doc == BuildDoc(repository_url)
           saved == SaveRawBuildManifest(repository_url)
           rec == ArchiveManifestRecord(GameId, repository_id, Platform, doc,
                                        repository_url, DocBytes(doc, "raw"), "", {},
                                        repository_id)
           archived == ok /\ ~saved.raises
       IN /\ files' = IF ok THEN ArchiveManifestFiles(files, repository_url, doc, "raw")
                      ELSE files
          /\ archived_builds' = IF archived THEN PutBuild(archived_builds, rec)
                                ELSE archived_builds
          /\ arch_builds' = IF archived THEN <<rec>> ELSE << >>
          /\ wrote' = IF ok THEN {"build_manifest"} ELSE {}
          /\ cache_hits' = IF saved.save_path \in DOMAIN files
                           THEN {saved.save_path} ELSE {}
          /\ cache_overwrites' = IF ok /\ saved.save_path \in DOMAIN files
                                 THEN {saved.save_path} ELSE {}
          /\ clean' = ok
    /\ arch_target' = repository_id
    /\ arch_pc' = "content"
    /\ StartLog(repository_id)
    /\ UNCHANGED <<arch_depots, v1_data, arch_blobs, archived_manifests, depot_route,
                   database>>
    /\ UNCHANGED <<chunkVars, blobVars>>
    /\ UNCHANGED toolVars
    /\ arch_errors' = IF ok THEN {} ELSE {"repository manifest " \o repository_id}
    /\ UNCHANGED <<listed, blob_path, only_call, arch_platforms>>

\* archive_content_for_manifest, lines 1437-1500: whether the build manifest
\* is read from disk and its depot manifests are listed without an exception
ContentListed(fs, b) ==
    /\ b.archive_path \in DOMAIN fs
    /\ ~DepotManifests(b.version, fs[b.archive_path].doc).raises

\* archive_content_for_manifest, lines 1428-1500, for the next build: read
\* its build manifest from disk and list its depot manifests; a missing file
\* or a depot entry without a manifest field in a gen-2 manifest raises, and
\* the handler at line 1636 leads to save_database at line 1642
ContentStart ==
    /\ arch_pc = "content"
    /\ arch_builds # << >>
    /\ LET b == Head(arch_builds)
       IN IF ContentListed(files, b)
          THEN /\ arch_depots' = DepotManifests(b.version, files[b.archive_path].doc).depot_manifests
               /\ arch_pc' = IF b.version = 2 THEN "v2" ELSE "v1"
               /\ UNCHANGED <<arch_builds, database, index_writes>>
          ELSE /\ arch_depots' = << >>
               /\ arch_pc' = "content"
               /\ arch_builds' = Tail(arch_builds)
               /\ database' = SaveDatabase(archived_builds)
               /\ index_writes' = index_writes + 1
    /\ v1_data' = NoData
    /\ arch_blobs' = << >>
    /\ UNCHANGED <<arch_target, archStore, archLog, wrote>>
    /\ UNCHANGED <<chunkVars, blobVars>>
    /\ UNCHANGED toolVars
    /\ arch_errors' = IF ContentListed(files, Head(arch_builds))
                      THEN arch_errors
                      ELSE arch_errors \cup {"content " \o Head(arch_builds).build_id}
    /\ UNCHANGED <<listed, blob_path, only_call, arch_platforms>>

\* the encodings in which a server sends a manifest: a zlib stream (first
\* byte 78), a gzip stream (first bytes 1f 8b) or the JSON text itself
Encodings == {"zlib", "gzip", "plain"}

\* raw_response.content: the body of a manifest in an encoding.  The zlib
\* stream is the form "raw" of a stored document
ResponseContent(doc, encoding) ==
    [doc |-> doc, form |-> IF encoding = "zlib" THEN "raw" ELSE encoding]

\* lines 1695-1707: gzip.decompress for a body that starts with 1f 8b,
\* zlib.decompress(raw_data, 15) for one that starts with 78, json.loads of
\* the body itself otherwise
ParseDepotManifest(raw_data) ==
    IF raw_data.form = "gzip" THEN raw_data.doc
    ELSE IF raw_data.form = "raw" THEN raw_data.doc
    ELSE raw_data.doc

\* _archive_v2_depot_manifest_and_chunks, lines 1646-1757, for the next depot
\* manifest: try the three URLs, save the first answer, note the manifest,
\* and enter _download_v2_chunks with the chunks it refers to
ArchiveV2Depot(ok, encoding) ==
    /\ arch_pc = "v2"
    /\ arch_depots # << >>
    /\ LET manifest_id == Head(arch_depots)
           depot_url == DepotUrlsToTry(GalaxyPath(manifest_id))[depot_route]
           raw_path == SaveRawDepotManifest(depot_url)
           pretty_path == ParentDir(raw_path) \o LastSegment(raw_path) \o ".json"
           raw_data == ResponseContent(DepotDoc(manifest_id), encoding)
           doc == ParseDepotManifest(raw_data)
       IN /\ cache_hits' = IF ManifestOnlyExists(files, manifest_id)
                           THEN cache_hits \cup {manifest_id} ELSE cache_hits
          /\ IF ok
             THEN /\ files' = WriteFile(WriteFile(files, raw_path, raw_data),
                                        pretty_path, [doc |-> doc, form |-> "pretty"])
                  /\ archived_manifests' = archived_manifests \cup {manifest_id}
                  /\ stored_v2' = [m \in (DOMAIN stored_v2) \cup {manifest_id} |->
                                      IF m = manifest_id THEN raw_path ELSE stored_v2[m]]
                  /\ cache_overwrites' = IF raw_path \in DOMAIN files
                                         THEN cache_overwrites \cup {raw_path}
                                         ELSE cache_overwrites
                  /\ wrote' = wrote \cup {"depot_manifest"}
                  /\ PoolScan(DocChunks(doc), TRUE)
                  /\ arch_pc' = "chunks"
                  /\ UNCHANGED <<arch_depots, clean>>
             ELSE /\ arch_depots' = Tail(arch_depots)
                  /\ clean' = FALSE
                  /\ UNCHANGED <<files, archived_manifests, stored_v2, cache_overwrites,
                                 wrote, arch_pc, chunkVars>>
    /\ UNCHANGED <<arch_target, arch_builds, v1_data, arch_blobs, archived_builds,
                   depot_route, database, index_writes, blob_starts, second, fresh,
                   last_target>>
    /\ UNCHANGED blobVars
    /\ UNCHANGED toolVars
    /\ UNCHANGED callVars

\* lines 1757-1763 and 1512-1513: _download_v2_chunks has returned, the
\* depot manifest is done
AfterChunks ==
    /\ arch_pc = "chunks"
    /\ chunk_run = "idle"
    /\ arch_depots' = Tail(arch_depots)
    /\ arch_pc' = "v2"
    /\ clean' = (clean /\ chunk_result.errors = {})
    /\ UNCHANGED <<arch_target, arch_builds, v1_data, arch_blobs, archStore, database,
                   wrote, index_writes, blob_starts, second, fresh, last_target,
                   cache_hits, cache_overwrites, stored_v2>>
    /\ UNCHANGED <<chunkVars, blobVars>>
    /\ UNCHANGED toolVars
    /\ UNCHANGED callVars

\* _download_v1_depot_manifest_only, lines 1897-1958, and its caller, lines
\* 1521-1535, for the next gen-1 depot manifest
DownloadV1Depot(ok) ==
    /\ arch_pc = "v1"
    /\ arch_depots # << >>
    /\ LET b == Head(arch_builds)
           manifest_id == Head(arch_depots)
           depot_url == V1DepotUrl(b.game_id, b.platform, b.repository_id, manifest_id)
           raw_path == SaveRawDepotManifest(depot_url)
           doc == DepotDoc(manifest_id)
           held == manifest_id \in archived_manifests
           got == ~held /\ ok
       IN /\ files' = IF got
                      THEN WriteFile(files, raw_path, [doc |-> doc, form |-> "dumps"])
                      ELSE files
          /\ v1_data' = IF held \/ got
                        THEN [m \in (DOMAIN v1_data) \cup {manifest_id} |->
                                 IF m = manifest_id
                                 THEN (IF held THEN NoValue ELSE doc)
                                 ELSE v1_data[m]]
                        ELSE v1_data
          /\ cache_hits' = IF ~held /\ raw_path \in DOMAIN files
                           THEN cache_hits \cup {manifest_id} ELSE cache_hits
          /\ cache_overwrites' = IF got /\ raw_path \in DOMAIN files
                                 THEN cache_overwrites \cup {raw_path}
                                 ELSE cache_overwrites
          /\ wrote' = IF got THEN wrote \cup {"depot_manifest"} ELSE wrote
          /\ clean' = (clean /\ (held \/ ok))
    /\ arch_depots' = Tail(arch_depots)
    /\ UNCHANGED <<arch_pc, arch_target, arch_builds, arch_blobs, archived_builds,
                   archived_manifests, depot_route, database, index_writes,
                   blob_starts, second, fresh, last_target, stored_v2>>
    /\ UNCHANGED <<chunkVars, blobVars>>
    /\ UNCHANGED toolVars
    /\ arch_errors' = IF Head(arch_depots) \in archived_manifests \/ ok
                      THEN arch_errors
                      ELSE arch_errors \cup {"depot manifest " \o Head(arch_depots)}
    /\ UNCHANGED <<listed, blob_path, only_call, arch_platforms>>

\* archive_content_for_manifest, lines 1537-1546: collect the blob urls of
\* the manifests that were fetched; a manifest without data raises
DeduplicateBlobUrls ==
    /\ arch_pc = "v1"
    /\ arch_depots = << >>
    /\ arch_blobs' = IF \E m \in DOMAIN v1_data : v1_data[m] = NoValue
                     THEN << >>
                     ELSE UniqueBlobUrls(v1_data)
    /\ arch_pc' = "blobs"
    /\ UNCHANGED <<arch_target, arch_builds, arch_depots, v1_data, archStore, archLog,
                   database, wrote, index_writes>>
    /\ UNCHANGED <<chunkVars, blobVars>>
    /\ UNCHANGED toolVars
    /\ arch_errors' = IF \E m \in DOMAIN v1_data : v1_data[m] = NoValue
                      THEN arch_errors \cup {"content " \o Head(arch_builds).build_id}
                      ELSE arch_errors
    /\ UNCHANGED <<listed, blob_path, only_call, arch_platforms>>

\* archive_content_for_manifest, line 1553: where the blob of a build is written
ArchiveBlobPath(archived_build) == "blobs/" \o archived_build.build_id \o "/main.bin"

\* archive_content_for_manifest, lines 1549-1600, for the next blob url:
\* HEAD, the size check, and the call of _download_v1_blob_with_resume
V1Blob(head) ==
    /\ arch_pc = "blobs"
    /\ arch_blobs # << >>
    /\ BeginBlob(head)
    /\ arch_pc' = "blob"
    /\ blob_starts' = IF blob_outcome' = "running" THEN blob_starts + 1 ELSE blob_starts
    /\ clean' = (clean /\ head = "length")
    /\ UNCHANGED <<arch_target, arch_builds, arch_depots, v1_data, arch_blobs, archStore,
                   database, wrote, index_writes, second, fresh, last_target,
                   cache_hits, cache_overwrites, stored_v2>>
    /\ UNCHANGED chunkVars
    /\ UNCHANGED toolVars
    /\ blob_path' = ArchiveBlobPath(Head(arch_builds))
    /\ UNCHANGED <<listed, arch_errors, only_call, arch_platforms>>

\* lines 1586 and 1598-1634: the blob url is done; an exception of the HEAD
\* request or of blob_path.stat() ends the loop at the handler of line 1636
V1BlobEnd ==
    /\ arch_pc = "blob"
    /\ pc = "idle"
    /\ arch_blobs' = IF blob_outcome = "error" THEN << >> ELSE Tail(arch_blobs)
    /\ arch_pc' = "blobs"
    /\ clean' = (clean /\ blob_outcome \in {"archived", "skipped"})
    /\ UNCHANGED <<arch_target, arch_builds, arch_depots, v1_data, archStore, database,
                   wrote, index_writes, blob_starts, second, fresh, last_target,
                   cache_hits, cache_overwrites, stored_v2>>
    /\ UNCHANGED <<chunkVars, blobVars>>
    /\ UNCHANGED toolVars
    /\ arch_errors' = IF blob_outcome \in {"archived", "skipped"} THEN arch_errors
                      ELSE IF blob_outcome = "error"
                      THEN arch_errors \cup {"content " \o Head(arch_builds).build_id}
                      ELSE arch_errors \cup {"blob " \o Head(arch_builds).build_id}
    /\ UNCHANGED <<listed, blob_path, only_call, arch_platforms>>

\* archive_content_for_manifest, lines 1641-1644: save_database and return
ContentEnd ==
    /\ arch_pc \in {"v2", "blobs"}
    /\ arch_depots = << >>
    /\ arch_blobs = << >>
    /\ database' = SaveDatabase(archived_builds)
    /\ index_writes' = index_writes + 1
    /\ arch_builds' = Tail(arch_builds)
    /\ arch_pc' = "content"
    /\ UNCHANGED <<arch_target, arch_depots, v1_data, arch_blobs, archStore, archLog,
                   wrote>>
    /\ UNCHANGED <<chunkVars, blobVars>>
    /\ UNCHANGED toolVars
    /\ UNCHANGED callVars

\* archive_build, lines 4644-4652 (_archive_repository, lines 4841-4849):
\* the last save_database and the return
ArchiveFinish ==
    /\ arch_pc = "content"
    /\ arch_builds = << >>
    /\ database' = SaveDatabase(archived_builds)
    /\ index_writes' = index_writes + 1
    /\ arch_pc' = "idle"
    /\ last_target' = arch_target
    /\ UNCHANGED <<arch_target, arch_builds, arch_depots, v1_data, arch_blobs, archStore,
                   wrote, blob_starts, clean, second, fresh, cache_hits,
                   cache_overwrites, stored_v2>>
    /\ UNCHANGED <<chunkVars, blobVars>>
    /\ UNCHANGED toolVars
    /\ UNCHANGED callVars

\* a new archiver process: __init__ and load_database, lines 174-228
Restart ==
    /\ arch_pc = "idle"
    /\ pc = "idle"
    /\ chunk_run = "idle"
    /\ archived_builds' = LoadDatabase(database)
    /\ archived_manifests' = {}
    /\ UNCHANGED <<files, depot_route, archProc, archLog, database, wrote, index_writes>>
    /\ UNCHANGED <<chunkVars, blobVars>>
    /\ UNCHANGED toolVars
    /\ UNCHANGED callVars

\* list_builds called for the product, both generations (generation = 0) or one
ListBuildsCall(ok1, ok2, generation) ==
    /\ arch_pc = "idle"
    /\ listed' = ListBuilds(ApiItems(1, "", {}), ApiItems(2, "", {}), ok1, ok2, generation)
    /\ UNCHANGED <<chunkVars, blobVars, archVars, toolVars>>
    /\ UNCHANGED <<blob_path, arch_errors, only_call, arch_platforms>>

\* sync_build_metadata, lines 4344-4470: list the builds of both generations,
\* backfill the builds the archive holds, add the ones it does not hold, and
\* save_database when anything was updated or added
SyncBuildMetadata(ok1, ok2, version_name, tags) ==
    /\ arch_pc = "idle"
    /\ save_pc.at = "idle"
    /\ LET api_builds == ListBuilds(ApiItems(1, version_name, tags),
                                    ApiItems(2, version_name, tags), ok1, ok2, 0)
       IN /\ archived_builds' = SyncBuilds(archived_builds, GameId, api_builds)
          /\ database' = IF archived_builds' # archived_builds
                         THEN SaveDatabase(archived_builds') ELSE database
    /\ UNCHANGED <<files, archived_manifests, depot_route, archProc, archLog, wrote,
                   index_writes>>
    /\ UNCHANGED <<chunkVars, blobVars, toolVars, callVars>>

----------------------------------------------------------------------------
(* Validator.  validate_archive_comprehensive walks the builds of the Build *)
(* Index; a gen-1 build is checked file record by file record against the   *)
(* blob, a gen-2 build chunk by chunk against the chunk store.              *)

\* the directories __init__ creates under the archive root (lines 99-110)
TopDirs == {"builds", "manifests", "chunks", "blobs", "metadata"}

\* depot.files of a gen-1 depot manifest: path, offset and size of each file
\* record; every record of the model has a url
DocFiles(doc) ==
    CASE doc = "depot_m1" -> {[path |-> "a.txt", offset |-> 0, size |-> 2]}
      [] doc = "depot_m2" -> {[path |-> "b.txt", offset |-> 2, size |-> 1]}
      [] doc = "depot_m1_slashes" -> {[path |-> "//a.txt", offset |-> 0, size |-> 2]}
      [] doc = "depot_m2_parent" -> {[path |-> "../b.txt", offset |-> 2, size |-> 1]}
      [] OTHER -> {}

\* the hash field of a file record: the MD5 of the file's bytes in the blob
\* the server holds
FileHash(f) == Digest(ReadAt(blob_data, f.offset, f.size))

\* the sum of the values of a function with a finite domain
RECURSIVE SumFn(_)
SumFn(f) ==
    IF DOMAIN f = {} THEN 0
    ELSE LET x == CHOOSE x \in DOMAIN f : TRUE
         IN f[x] + SumFn([y \in (DOMAIN f) \ {x} |-> f[y]])

\* a build result with nothing counted
BuildResult(success, version, errors) ==
    [success |-> success, version |-> version,
     chunks_validated |-> 0, chunks_failed |-> 0,
     blobs_validated |-> 0, blobs_failed |-> 0,
     files_validated |-> 0, files_failed |-> 0, errors |-> errors]

\* _validate_v1_build, line 3473: where a gen-1 depot manifest is read from
V1DepotManifestPath(build, depot_manifest_id) ==
    "manifests/v1/manifests/" \o build.game_id \o "/" \o build.platform \o "/"
    \o build.repository_id \o "/" \o depot_manifest_id

\* _validate_v1_build, line 3546, and _validate_v1_blob_files_sorted, line
\* 3691: where the validator reads the blob of a build; blob_id is the id
\* the file records carry
ValidatorBlobPath(build, blob_id) ==
    "blobs/" \o (IF build.build_id \notin {NoValue, ""} THEN build.build_id ELSE blob_id)
    \o "/main.bin"

\* _validate_v1_blob_files_sorted: the file records are read at their offsets;
\* a short read counts the file as failed and leaves success alone, an MD5
\* mismatch counts it as failed and clears success
ValidateV1BlobFilesSorted(exists, bytes, recs) ==
    IF ~exists
    THEN [success |-> FALSE, blob_valid |-> FALSE, files_validated |-> 0,
          files_failed |-> 0, errors |-> 1]
    ELSE LET data(f) == ReadAt(bytes, f.offset, f.size)
             sized == {f \in recs : Len(data(f)) = f.size}
             valid == {f \in sized : Digest(data(f)) = FileHash(f)}
         IN [success |-> (sized = valid), blob_valid |-> TRUE,
             files_validated |-> Cardinality(valid),
             files_failed |-> Cardinality(recs \ valid), errors |-> 0]

\* _validate_v1_build: success is cleared by a missing build manifest, a
\* missing depot manifest, and a blob file that does not exist (blob_valid);
\* the success of the blob result only decides whether its errors are copied
ValidateV1Build(fs, exists, bytes, build) ==
    IF build.archive_path \notin DOMAIN fs THEN BuildResult(FALSE, 1, 1)
    ELSE LET depots == Range(DocDepots(fs[build.archive_path].doc))
             found == {m \in depots : V1DepotManifestPath(build, m) \in DOMAIN fs}
             recs == UNION {DocFiles(fs[V1DepotManifestPath(build, m)].doc) : m \in found}
             blob == ValidateV1BlobFilesSorted(exists, bytes, recs)
             missing == Cardinality(depots \ found)
         IN IF recs = {}
            THEN BuildResult(missing = 0, 1, missing)
            ELSE [success |-> (missing = 0 /\ blob.blob_valid), version |-> 1,
                  chunks_validated |-> 0, chunks_failed |-> 0,
                  blobs_validated |-> IF blob.blob_valid THEN 1 ELSE 0,
                  blobs_failed |-> IF blob.blob_valid THEN 0 ELSE 1,
                  files_validated |-> blob.files_validated,
                  files_failed |-> blob.files_failed,
                  errors |-> missing + (IF blob.success THEN 0 ELSE blob.errors)]

\* a depot validation that passes every depot manifest it finds, whatever
\* the state of its chunks
ValidateV2DepotManifestFoundOnly(fs, store, manifest_id) ==
    IF ValidatorPath(fs, manifest_id) = NoPath
    THEN [success |-> FALSE, chunks_validated |-> 0, chunks_failed |-> 0, errors |-> 1]
    ELSE LET chunks_to_validate == DocChunks(fs[ValidatorPath(fs, manifest_id)].doc)
             valid == {h \in chunks_to_validate : ValidateChunkExistsWithHash(store, h)}
         IN [success |-> TRUE,
             chunks_validated |-> Cardinality(valid),
             chunks_failed |-> Cardinality(chunks_to_validate \ valid),
             errors |-> 0]

\* _validate_v2_depot_manifest: the chunks of one depot manifest, each once
ValidateV2DepotManifest(fs, store, manifest_id) ==
    IF ValidatorPath(fs, manifest_id) = NoPath
    THEN [success |-> FALSE, chunks_validated |-> 0, chunks_failed |-> 0, errors |-> 1]
    ELSE LET chunks_to_validate == DocChunks(fs[ValidatorPath(fs, manifest_id)].doc)
             valid == {h \in chunks_to_validate : ValidateChunkExistsWithHash(store, h)}
         IN [success |-> (valid = chunks_to_validate),
             chunks_validated |-> Cardinality(valid),
             chunks_failed |-> Cardinality(chunks_to_validate \ valid),
             errors |-> 0]

\* _validate_v2_build: the depot results are added up, depot by depot
ValidateV2Build(fs, store, build) ==
    IF build.archive_path \notin DOMAIN fs THEN BuildResult(FALSE, 2, 1)
    ELSE LET depot_manifests == DocDepots(fs[build.archive_path].doc)
             depot_result == [i \in DOMAIN depot_manifests |->
                                 ValidateV2DepotManifest(fs, store, depot_manifests[i])]
         IN [success |-> \A i \in DOMAIN depot_result : depot_result[i].success,
             version |-> 2,
             chunks_validated |-> SumFn([i \in DOMAIN depot_result |->
                                            depot_result[i].chunks_validated]),
             chunks_failed |-> SumFn([i \in DOMAIN depot_result |->
                                         depot_result[i].chunks_failed]),
             blobs_validated |-> 0, blobs_failed |-> 0,
             files_validated |-> 0, files_failed |-> 0,
             errors |-> SumFn([i \in DOMAIN depot_result |-> depot_result[i].errors])]

\* validate_archive_comprehensive, lines 3170-3187: the builds to validate
BuildsToValidate(builds, game_id, build_id) ==
    IF build_id # NoValue
    THEN {BuildKey(game_id, build_id, Platform)} \cap DOMAIN builds
    ELSE {k \in DOMAIN builds : builds[k].game_id = game_id
                                /\ builds[k].platform = Platform}

\* validate_archive_comprehensive, lines 3193-3229: one result for each build
\* and the summary counters
ValidateArchiveComprehensive(builds, fs, store, exists, bytes, game_id, build_id) ==
    LET keys == BuildsToValidate(builds, game_id, build_id)
        build_results == [k \in keys |->
            IF builds[k].version = 1 THEN ValidateV1Build(fs, exists, bytes, builds[k])
            ELSE IF builds[k].version = 2 THEN ValidateV2Build(fs, store, builds[k])
            ELSE BuildResult(FALSE, builds[k].version, 1)]
        passed(v) == {k \in keys : build_results[k].success
                                   /\ build_results[k].version = v}
    IN [done |-> TRUE,
        total_builds_found |-> Cardinality(keys),
        v1_builds_validated |-> Cardinality(passed(1)),
        v2_builds_validated |-> Cardinality(passed(2)),
        validation_passed |-> Cardinality({k \in keys : build_results[k].success}),
        validation_failed |-> Cardinality({k \in keys : ~build_results[k].success}),
        chunks_validated |-> SumFn([k \in keys |-> build_results[k].chunks_validated]),
        chunks_failed |-> SumFn([k \in keys |-> build_results[k].chunks_failed]),
        blobs_validated |-> SumFn([k \in keys |-> build_results[k].blobs_validated]),
        blobs_failed |-> SumFn([k \in keys |-> build_results[k].blobs_failed]),
        build_results |-> build_results,
        errors |-> SumFn([k \in keys |-> build_results[k].errors])]

\* no validation has run, or the store has changed since it ran
NoValidation ==
    [done |-> FALSE, total_builds_found |-> 0, v1_builds_validated |-> 0,
     v2_builds_validated |-> 0, validation_passed |-> 0, validation_failed |-> 0,
     chunks_validated |-> 0, chunks_failed |-> 0, blobs_validated |-> 0,
     blobs_failed |-> 0,
     build_results |-> [k \in {} |-> BuildResult(FALSE, 0, 0)], errors |-> 0]

\* cli.py archive_validate: a new archiver without authentication on an
\* archive root that exists (__init__ makes the five directories and loads
\* the Build Index), then validate_archive_comprehensive
Validate(build_id) ==
    /\ arch_pc = "idle"
    /\ pc = "idle"
    /\ chunk_run = "idle"
    /\ dirs' = dirs \cup TopDirs
    /\ archived_builds' = LoadDatabase(database)
    /\ archived_manifests' = {}
    /\ validation' = ValidateArchiveComprehensive(LoadDatabase(database), files, chunks,
                          blob_exists, blob_bytes, GameId, build_id)
    /\ UNCHANGED <<files, depot_route, archProc, archLog, database, wrote, index_writes>>
    /\ UNCHANGED <<chunkVars, blobVars>>
    /\ UNCHANGED <<repair_stats, out_files, extraction, writers, save_pc>>
    /\ UNCHANGED callVars

----------------------------------------------------------------------------
(* An archive that holds the gen-1 build and the gen-2 repository of the   *)
(* product, as archive_build leaves them, and what can happen to its files *)
(* on disk afterwards.  The validator, the repair path and the extractor   *)
(* start from it.                                                          *)

\* the ArchivedBuild of the gen-1 build (archive_build_manifests)
Build1 ==
    LET b == CHOOSE b \in BuildsItems(1) : b.build_id = "B1"
    IN ArchiveManifestRecord(GameId, b.build_id, Platform, BuildDoc(b.link),
                             b.link, DocBytes(BuildDoc(b.link), "dumps"), "", {},
                             b.legacy_build_id)

\* the ArchivedBuild of the gen-2 repository (_archive_repository)
Build2 ==
    ArchiveManifestRecord(GameId, RepositoryId, Platform,
                          BuildDoc(V2RepositoryUrl(RepositoryId)),
                          V2RepositoryUrl(RepositoryId),
                          DocBytes(BuildDoc(V2RepositoryUrl(RepositoryId)), "raw"), "", {},
                          RepositoryId)

\* the files archive_build writes for a build: the raw build manifest and
\* its prettified copy (_archive_manifest), then the depot manifests at
\* depot_paths
ArchivedFiles(fs, cdn_url, saved, form, depot_paths, depot_form) ==
    [p \in DOMAIN depot_paths |-> [doc |-> DepotDoc(depot_paths[p]), form |-> depot_form]]
    @@ (saved.json_path :> [doc |-> BuildDoc(cdn_url), form |-> "pretty"])
    @@ (saved.save_path :> [doc |-> BuildDoc(cdn_url), form |-> form])
    @@ fs

\* the files archive_build writes for the gen-1 build: the build manifest,
\* its prettified copy, and the depot manifests
ArchivedFiles1(fs) ==
    ArchivedFiles(fs, Build1.cdn_url, SaveRawBuildManifest(Build1.cdn_url), "dumps",
                  [p \in {SaveRawDepotManifest(V1DepotUrl(GameId, Platform, "R1", m)) :
                             m \in Range(DocDepots("repository_R1"))} |-> LastSegment(p)],
                  "dumps")

\* the files archive_build writes for the gen-2 repository when the CDN url
\* answers for the depot manifests: raw file and prettified copy of each
ArchivedFiles2(fs) ==
    [p \in {MetaPath(m) \o ".json" : m \in Range(DocDepots("build_b2c3"))} |->
        [doc |-> DepotDoc(WithSuffix(LastSegment(p), "")), form |-> "pretty"]]
    @@ ArchivedFiles(fs, Build2.cdn_url, SaveRawBuildManifest(Build2.cdn_url), "raw",
                     [p \in {SaveRawDepotManifest(DepotUrlsToTry(GalaxyPath(m))[2]) :
                                m \in Range(DocDepots("build_b2c3"))} |-> LastSegment(p)],
                     "raw")

\* the genuine payload of a chunk
GenuinePayload(h) == CHOOSE p \in Payloads : MD5(p) = h

\* the chunks the gen-2 repository refers to
Build2Chunks == UNION {DocChunks(DepotDoc(m)) : m \in Range(DocDepots("build_b2c3"))}

\* the blob the server holds for the gen-1 build in these runs
ArchivedBlob == <<1, 0, 1>>

\* the run-local variables of a blob download when none is running
InitBlobIdle ==
    /\ pc = "idle"
    /\ expected_size = 0
    /\ existing_chunks = EmptyChunks
    /\ chunks_to_download = << >>
    /\ qi = 0
    /\ overall_hash = << >>
    /\ incremental_hashes = NoHashes
    /\ chunk_data = << >>
    /\ blob_outcome = "none"
    /\ torn = {}
    /\ interrupted_after = -1
    /\ head_lost = FALSE

\* the variables of an archive call when none is running
InitArchiveIdle ==
    /\ archived_manifests = {}
    /\ depot_route = 2
    /\ arch_pc = "idle"
    /\ arch_target = NoValue
    /\ arch_builds = << >>
    /\ arch_depots = << >>
    /\ v1_data = NoData
    /\ arch_blobs = << >>
    /\ wrote = {}
    /\ index_writes = 0
    /\ blob_starts = 0
    /\ clean = TRUE
    /\ second = FALSE
    /\ fresh = TRUE
    /\ last_target = NoValue
    /\ cache_hits = {}
    /\ cache_overwrites = {}

\* the archive root after both builds were archived
InitArchived ==
    /\ files = ArchivedFiles2(ArchivedFiles1(NoFiles))
    /\ chunks = [h \in Build2Chunks |-> GenuinePayload(h)]
    /\ blob_data = ArchivedBlob
    /\ blob_exists = TRUE
    /\ blob_bytes = ArchivedBlob
    /\ json = GenerateBlobChecksumJson(NoJson, TRUE, ArchivedBlob, Len(ArchivedBlob))
    /\ xml = GenerateBlobChecksumXml(NoXml, TRUE, ArchivedBlob, Len(ArchivedBlob))
    /\ archived_builds = PutBuild(PutBuild(NoBuilds, Build1), Build2)
    /\ database = SaveDatabase(PutBuild(PutBuild(NoBuilds, Build1), Build2))
    /\ stored_v2 = [m \in Range(DocDepots("build_b2c3")) |-> MetaPath(m)]
    /\ dirs = TopDirs

\* an archive root that exists and holds nothing
InitEmptyRoot ==
    /\ files = NoFiles
    /\ chunks = EmptyStore
    /\ blob_data = ArchivedBlob
    /\ blob_exists = FALSE
    /\ blob_bytes = << >>
    /\ json = NoJson
    /\ xml = NoXml
    /\ archived_builds = NoBuilds
    /\ database = NoDatabase
    /\ stored_v2 = NoData
    /\ dirs = {}

\* no extraction has run, or the store has changed since it ran
NoExtraction ==
    [done |-> FALSE, raised |-> FALSE, build_id |-> NoValue, verify_checksums |-> FALSE,
     version |-> 0, written |-> {}, files_extracted |-> 0, total_size |-> 0,
     errors |-> << >>]

\* the manifest files the validator, the repair path and the extractor
\* read: the raw build manifests and the raw depot manifests
ManifestPaths ==
    {Build1.archive_path, Build2.archive_path}
    \cup {V1DepotManifestPath(Build1, m) : m \in Range(DocDepots("repository_R1"))}
    \cup {MetaPath(m) : m \in Range(DocDepots("build_b2c3"))}

\* how many things are wrong with the store: manifest files that are gone,
\* chunk files that are gone or hold other bytes, the blob
Damage ==
    Cardinality(ManifestPaths \ DOMAIN files)
    + Cardinality({h \in Build2Chunks : ~ValidateChunkExistsWithHash(chunks, h)})
    + (IF blob_exists /\ blob_bytes = blob_data THEN 0 ELSE 1)

\* how much damage one run of the model puts into the store
MaxDamage == 2

\* the contents a blob file can be left with: one byte flipped, or cut short
DamagedBlobs ==
    {[i \in 1..Len(ArchivedBlob) |-> IF i = k THEN 1 - ArchivedBlob[i] ELSE ArchivedBlob[i]] :
        k \in 1..Len(ArchivedBlob)}
    \cup {SubSeq(ArchivedBlob, 1, n) : n \in 0..(Len(ArchivedBlob) - 1)}

\* a manifest file disappears from the archive root
LoseManifest(path) ==
    /\ Damage < MaxDamage
    /\ path \in ManifestPaths \cap DOMAIN files
    /\ files' = [q \in (DOMAIN files) \ {path} |-> files[q]]
    /\ validation' = NoValidation
    /\ repair_stats' = NoRepair
    /\ UNCHANGED <<archived_builds, archived_manifests, depot_route, archProc, archLog,
                   database, wrote, index_writes>>
    /\ UNCHANGED <<chunkVars, blobVars>>
    /\ extraction' = NoExtraction
    /\ UNCHANGED <<dirs, out_files, writers, save_pc>>
    /\ UNCHANGED callVars

\* a chunk file disappears (content = NoValue) or comes to hold other bytes
DamageChunk(h, content) ==
    /\ Damage < MaxDamage
    /\ chunk_run = "idle"
    /\ ValidateChunkExistsWithHash(chunks, h)
    /\ chunks' = IF content = NoValue
                 THEN [k \in (DOMAIN chunks) \ {h} |-> chunks[k]]
                 ELSE [chunks EXCEPT ![h] = content]
    /\ validation' = NoValidation
    /\ repair_stats' = NoRepair
    /\ UNCHANGED <<chunk_run, chunk_todo, chunk_result>>
    /\ UNCHANGED <<blobVars, archVars>>
    /\ extraction' = NoExtraction
    /\ UNCHANGED <<dirs, out_files, writers, save_pc>>
    /\ UNCHANGED callVars

\* the blob file comes to hold other bytes
DamageBlob(bytes) ==
    /\ Damage < MaxDamage
    /\ pc = "idle"
    /\ blob_exists /\ blob_bytes = blob_data
    /\ blob_bytes' = bytes
    /\ validation' = NoValidation
    /\ UNCHANGED <<blob_data, blob_exists, json, xml, pc, expected_size, existing_chunks,
                   chunks_to_download, qi, overall_hash, incremental_hashes,
                   chunk_data, blob_outcome, torn, interrupted_after, head_lost>>
    /\ UNCHANGED <<chunkVars, archVars>>
    /\ extraction' = NoExtraction
    /\ UNCHANGED <<dirs, repair_stats, out_files, writers, save_pc>>
    /\ UNCHANGED callVars

\* the blob file disappears
LoseBlob ==
    /\ Damage < MaxDamage
    /\ pc = "idle"
    /\ blob_exists /\ blob_bytes = blob_data
    /\ blob_exists' = FALSE
    /\ blob_bytes' = << >>
    /\ validation' = NoValidation
    /\ UNCHANGED <<blob_data, json, xml, pc, expected_size, existing_chunks,
                   chunks_to_download, qi, overall_hash, incremental_hashes,
                   chunk_data, blob_outcome, torn, interrupted_after, head_lost>>
    /\ UNCHANGED <<chunkVars, archVars>>
    /\ extraction' = NoExtraction
    /\ UNCHANGED <<dirs, repair_stats, out_files, writers, save_pc>>
    /\ UNCHANGED callVars

\* verify_and_download_chunks_for_repository, lines 840-906, for a repository
\* the Build Index holds: the depot manifests the build manifest lists are
\* scanned where they are found on disk, and their chunks are collected
AllChunks(fs, build) ==
    IF build.archive_path \notin DOMAIN fs THEN {}
    ELSE UNION {DocChunks(fs[ChunkScanPath(fs, m)].doc) :
                   m \in {m \in Range(DocDepots(fs[build.archive_path].doc)) :
                              ChunkScanPath(fs, m) # NoPath}}

VerifyAndDownload(repository_id) ==
    /\ arch_pc = "idle"
    /\ \E k \in DOMAIN archived_builds :
          /\ archived_builds[k].game_id = GameId
          /\ archived_builds[k].repository_id = repository_id
          /\ archived_builds[k].version = 2
          /\ RepairBegin(AllChunks(files, archived_builds[k]))
    /\ validation' = NoValidation
    /\ UNCHANGED <<blobVars, archVars>>
    /\ UNCHANGED <<dirs, out_files, extraction, writers, save_pc>>
    /\ UNCHANGED callVars

----------------------------------------------------------------------------
(* Extractor.  extract_build rebuilds the file tree of a build under an     *)
(* output directory: a gen-1 build by cutting the blob at the offsets of    *)
(* its file records, a gen-2 build by joining the inflated chunks of each   *)
(* DepotFile item.  The bytes of a file are 0 or 1, as for the blob.        *)

\* depot.items of a gen-2 depot manifest, in order: type, path, and the
\* compressedMd5 of the chunks of a DepotFile in order
DocItems(doc) ==
    CASE doc = "depot_d1e2" ->
             << [type |-> "DepotDirectory", path |-> "bin", chunks |-> << >>],
                [type |-> "DepotFile", path |-> "bin/x.dat", chunks |-> <<"aa11", "bb22">>],
                [type |-> "DepotFile", path |-> "w.dat", chunks |-> <<"aa11">>] >>
      [] doc = "depot_f3a4" ->
             << [type |-> "DepotFile", path |-> "y.dat", chunks |-> <<"bb22">>] >>
      [] doc = "depot_d1e2_slash" ->
             << [type |-> "DepotDirectory", path |-> "bin", chunks |-> << >>],
                [type |-> "DepotFile", path |-> "bin/x.dat", chunks |-> <<"aa11", "bb22">>],
                [type |-> "DepotFile", path |-> "/w.dat", chunks |-> <<"aa11">>] >>
      [] doc = "depot_f3a4_parent" ->
             << [type |-> "DepotFile", path |-> "bin/../../y.dat", chunks |-> <<"bb22">>] >>
      [] OTHER -> << >>

\* whether zlib.decompress(payload) returns: a truncated body raises
\* zlib.error, X1 is a complete stream of other data
CanInflate(p) == p \notin {"T1"} \cup PartialContents

\* zlib.decompress(payload) of a payload that inflates
Inflate(p) ==
    CASE p = "P1" -> <<1, 1>>
      [] p = "P2" -> <<0, 1>>
      [] p = "P3" -> <<1, 0>>
      [] p = "X1" -> <<0, 0>>
      [] OTHER -> << >>

\* the size and md5 fields of a chunk record: those of the inflated genuine
\* payload
UncompressedSize(h) == Len(Inflate(GenuinePayload(h)))

ChunkMd5(h) == Digest(Inflate(GenuinePayload(h)))

\* output_path / file_path (extractor.py lines 342 and 572): pathlib drops
\* the left operand when the right one is an absolute path
OutputFilePath(output_path, file_path) ==
    IF Len(file_path) > 0 /\ SubSeq(file_path, 1, 1) = "/" THEN file_path
    ELSE output_path \o "/" \o file_path

\* one entry of results['errors']: what went wrong, and with which path or chunk
ExtractError(kind, about) == [kind |-> kind, about |-> about]

\* the output tree before anything is extracted
NoOutput == [q \in {} |-> << >>]

\* results of an extraction with nothing extracted into the tree out
ExtractResults(out) ==
    [out |-> out, written |-> {}, files_extracted |-> 0, total_size |-> 0,
     errors |-> << >>]

\* results['errors'].append(error_msg)
WithError(results, kind, about) ==
    [results EXCEPT !.errors = Append(@, ExtractError(kind, about))]

\* open(output_file_path, 'wb'); write(file_data); the two counters
WithFile(results, path, file_data, size) ==
    [results EXCEPT !.out = WriteFile(@, path, file_data),
                    !.written = @ \cup {path},
                    !.files_extracted = @ + 1,
                    !.total_size = @ + size]

\* _read_chunk: whether it returns the bytes of the chunk file (else None)
ChunkReadable(store, chunk_hash) ==
    /\ Len(chunk_hash) >= 4
    /\ chunk_hash \in DOMAIN store

\* a chunk loop that checks nothing but that the chunk can be read and inflated
ChunkErrorUnverified(store, chunk_hash, verify_checksums) ==
    IF ~ChunkReadable(store, chunk_hash) THEN "Chunk not found"
    ELSE IF ~CanInflate(store[chunk_hash]) THEN "Failed to decompress chunk"
    ELSE ""

\* _extract_v2_depot, lines 515-562: the error that ends the chunk loop at
\* this chunk, "" when the chunk is appended to file_data
ChunkError(store, chunk_hash, verify_checksums) ==
    IF ~ChunkReadable(store, chunk_hash) THEN "Chunk not found"
    ELSE IF verify_checksums /\ MD5(store[chunk_hash]) # chunk_hash
    THEN "Compressed chunk hash mismatch"
    ELSE IF ~CanInflate(store[chunk_hash]) THEN "Failed to decompress chunk"
    ELSE IF verify_checksums
            /\ Len(Inflate(store[chunk_hash])) # UncompressedSize(chunk_hash)
    THEN "Decompressed size mismatch"
    ELSE IF verify_checksums
            /\ Digest(Inflate(store[chunk_hash])) # ChunkMd5(chunk_hash)
    THEN "Decompressed data MD5 mismatch"
    ELSE ""

\* _extract_v2_depot, lines 499-579: one DepotFile item
ExtractV2File(results, store, item, verify_checksums) ==
    LET chunks_ == item.chunks
        bad == {i \in DOMAIN chunks_ : ChunkError(store, chunks_[i], verify_checksums) # ""}
        first == CHOOSE i \in bad : \A j \in bad : i <= j
        file_data[i \in 0..Len(chunks_)] ==
            IF i = 0 THEN << >> ELSE file_data[i - 1] \o Inflate(store[chunks_[i]])
        total_uncompressed_size[i \in 0..Len(chunks_)] ==
            IF i = 0 THEN 0
            ELSE total_uncompressed_size[i - 1] + UncompressedSize(chunks_[i])
    IN IF bad # {}
       THEN WithError(results, ChunkError(store, chunks_[first], verify_checksums),
                      chunks_[first])
       ELSE WithFile(results, item.path, file_data[Len(chunks_)],
                     total_uncompressed_size[Len(chunks_)])

\* a depot loop that gives up on the depot at the first item that fails
ExtractV2DepotStopAtFirst(results, store, depot_manifest, verify_checksums) ==
    LET items == DocItems(depot_manifest)
        F[i \in 0..Len(items)] ==
            IF i = 0 THEN results
            ELSE IF items[i].type # "DepotFile" THEN F[i - 1]
            ELSE IF Len(F[i - 1].errors) > Len(results.errors) THEN F[i - 1]
            ELSE ExtractV2File(F[i - 1], store, items[i], verify_checksums)
    IN F[Len(items)]

\* _extract_v2_depot: the items of one depot manifest, in order; items that
\* are not a DepotFile are skipped
ExtractV2Depot(results, store, depot_manifest, verify_checksums) ==
    LET items == DocItems(depot_manifest)
        F[i \in 0..Len(items)] ==
            IF i = 0 THEN results
            ELSE IF items[i].type # "DepotFile" THEN F[i - 1]
            ELSE ExtractV2File(F[i - 1], store, items[i], verify_checksums)
    IN F[Len(items)]

\* _extract_v2_build: the depot manifests the build manifest lists, in
\* order; one that is not found is skipped with a warning, one that does not
\* inflate adds an error
ExtractV2Build(fs, store, out, build_manifest, verify_checksums) ==
    LET depots == DocDepots(build_manifest)
        F[i \in 0..Len(depots)] ==
            IF i = 0 THEN ExtractResults(out)
            ELSE LET manifest_path == FindV2Manifest(fs, depots[i])
                 IN IF manifest_path = NoPath THEN F[i - 1]
                    ELSE IF fs[manifest_path].form # "raw"
                    THEN WithError(F[i - 1], "Error processing V2 depot", depots[i])
                    ELSE ExtractV2Depot(F[i - 1], store, fs[manifest_path].doc,
                                        verify_checksums)
    IN F[Len(depots)]

\* file_path[1:] when file_path.startswith('/')
StripSlash(path) ==
    IF Len(path) > 0 /\ SubSeq(path, 1, 1) = "/" THEN SubSeq(path, 2, Len(path))
    ELSE path

\* all_files.sort(key=lambda f: f.get('offset', 0))
RECURSIVE SortByOffset(_)
SortByOffset(recs) ==
    IF recs = {} THEN << >>
    ELSE LET f == CHOOSE f \in recs : \A g \in recs : f.offset <= g.offset
         IN <<f>> \o SortByOffset(recs \ {f})

\* extractor.py _extract_v1_files_sorted, lines 294-309: where the extractor
\* reads the blob, given the blob files that exist
ExtractorBlobPath(blob_files, game_id, build_id) ==
    IF "blobs/" \o build_id \o "/main.bin" \in blob_files
    THEN "blobs/" \o build_id \o "/main.bin"
    ELSE IF "blobs/" \o game_id \o "/main.bin" \in blob_files
    THEN "blobs/" \o game_id \o "/main.bin"
    ELSE NoPath

\* _extract_v1_files_sorted (the definition at line 283, which replaces the
\* one at line 216): exists and bytes are blobs/<build_id>/main.bin; nothing
\* writes blobs/<game_id>/main.bin
ExtractV1FilesSorted(exists, bytes, out, all_files, verify_checksums) ==
    LET one(results, f) ==
            LET file_data == ReadAt(bytes, f.offset, f.size)
            IN IF Len(file_data) # f.size
               THEN WithError(results, "Read size mismatch", f.path)
               ELSE IF verify_checksums /\ Digest(file_data) # FileHash(f)
               THEN WithError(results, "Hash mismatch", f.path)
               ELSE WithFile(results, f.path, file_data, f.size)
        F[i \in 0..Len(all_files)] ==
            IF i = 0 THEN ExtractResults(out) ELSE one(F[i - 1], all_files[i])
    IN IF all_files = << >> THEN ExtractResults(out)
       ELSE IF ~exists
       THEN WithError(ExtractResults(out), "Blob file not found", "main.bin")
       ELSE F[Len(all_files)]

\* _extract_v1_build: the file records of the depot manifests that are found
\* (the others are skipped with a warning), paths without their leading
\* slash, sorted by offset and cut out of the blob
ExtractV1Build(fs, exists, bytes, out, build, build_manifest, verify_checksums) ==
    LET depots == Range(DocDepots(build_manifest))
        found == {m \in depots : V1DepotManifestPath(build, m) \in DOMAIN fs}
        recs == UNION {DocFiles(fs[V1DepotManifestPath(build, m)].doc) : m \in found}
        all_files == SortByOffset({[f EXCEPT !.path = StripSlash(@)] : f \in recs})
    IN ExtractV1FilesSorted(exists, bytes, out, all_files, verify_checksums)

\* _load_build_manifest: whether it returns the build manifest: the build is
\* in the Build Index, its archive_path exists, and the file parses as plain
\* JSON (version 1) or inflates (version 2)
BuildManifestLoads(builds, fs, key) ==
    /\ key \in DOMAIN builds
    /\ builds[key].archive_path \in DOMAIN fs
    /\ IF builds[key].version = 1
       THEN fs[builds[key].archive_path].form \in {"dumps", "pretty"}
       ELSE fs[builds[key].archive_path].form = "raw"

\* extract_build: the results dict and the output tree; FileNotFoundError
\* when the build manifest cannot be loaded
ExtractBuild(builds, fs, store, exists, bytes, out, game_id, build_id, verify_checksums) ==
    LET key == BuildKey(game_id, build_id, Platform)
        build_manifest == fs[builds[key].archive_path].doc
        version == DocVersion(build_manifest)
        results == IF version = 1
                   THEN ExtractV1Build(fs, exists, bytes, out, builds[key],
                                       build_manifest, verify_checksums)
                   ELSE ExtractV2Build(fs, store, out, build_manifest, verify_checksums)
    IN IF ~BuildManifestLoads(builds, fs, key)
       THEN [out |-> out,
             extraction |-> [NoExtraction EXCEPT !.done = TRUE, !.raised = TRUE,
                                                 !.build_id = build_id,
                                                 !.verify_checksums = verify_checksums]]
       ELSE [out |-> results.out,
             extraction |-> [done |-> TRUE, raised |-> FALSE, build_id |-> build_id,
                             verify_checksums |-> verify_checksums,
                             version |-> version, written |-> results.written,
                             files_extracted |-> results.files_extracted,
                             total_size |-> results.total_size,
                             errors |-> results.errors]]

\* cli.py archive_extract: a new extractor on the archive root (it reads the
\* Build Index from disk), then extract_build into the output directory.
\* arguments.dry_run selects the banner and the closing message that are
\* printed and nothing else: extract_build is called either way
Extract(build_id, verify_checksums, dry_run) ==
    /\ arch_pc = "idle"
    /\ pc = "idle"
    /\ chunk_run = "idle"
    /\ LET r == ExtractBuild(LoadDatabase(database), files, chunks, blob_exists,
                             blob_bytes, out_files, GameId, build_id, verify_checksums)
       IN /\ out_files' = r.out
          /\ extraction' = r.extraction
    /\ UNCHANGED <<chunkVars, blobVars, archVars>>
    /\ UNCHANGED <<dirs, validation, repair_stats, writers, save_pc>>
    /\ UNCHANGED callVars

----------------------------------------------------------------------------
(* The Build Index file, write by write.  save_database opens              *)
(* archive_database.json for writing, which empties it, json.dump writes   *)
(* the document through the file object, and the with block closes it.     *)

\* no save_database call is running
NoSave == [at |-> "idle", previous |-> NoDatabase]

\* the ArchivedBuild of the gen-2 build archived by build id
Build2ById ==
    LET b == CHOOSE b \in BuildsItems(2) : b.build_id = "B2"
    IN ArchiveManifestRecord(GameId, b.build_id, Platform, BuildDoc(b.link),
                             b.link, DocBytes(BuildDoc(b.link), "raw"), "", {},
                             b.legacy_build_id)

\* the builds whose manifests are archived in these runs
SaveTargets == {Build1, Build2, Build2ById}

\* _archive_manifest: the raw build manifest and its prettified copy are
\* written, the ArchivedBuild is put into archived_builds
ArchiveManifest(rec) ==
    /\ save_pc.at = "idle"
    /\ arch_pc = "idle"
    /\ LET doc == BuildDoc(rec.cdn_url)
       IN /\ files' = ArchiveManifestFiles(files, rec.cdn_url, doc,
                                           IF DocCompressed(doc) THEN "raw" ELSE "dumps")
          /\ archived_builds' = IF SaveRawBuildManifest(rec.cdn_url).raises
                                THEN archived_builds
                                ELSE PutBuild(archived_builds, rec)
    /\ UNCHANGED <<archived_manifests, depot_route, archProc, archLog, database, wrote,
                   index_writes>>
    /\ UNCHANGED <<chunkVars, blobVars>>
    /\ UNCHANGED toolVars
    /\ UNCHANGED callVars

\* the URL archive_repository_build_manifests requests, lines 626-633
RepositoryApiUrl(game_id, platform, repository_id, repository_version) ==
    GOG_CONTENT_SYSTEM \o "/products/" \o game_id \o "/os/" \o platform \o "/builds/"
    \o repository_id \o "/repository"
    \o (IF repository_version = 2 THEN "?generation=2" ELSE "")

\* the document the builds API answers a repository URL with
RepositoryDoc(repository_id) == "repository_" \o repository_id

\* archive_repository_build_manifests, lines 599-685, for a product whose
\* repositories are windows ones (the requests for osx and linux are answered
\* 404): an archived build with this repository id is returned as it is;
\* else the repository manifest is requested and handed to _archive_manifest
\* with the request URL as cdn_url.  The files and the builds after the
\* call, the builds it returns, and whether its request was answered.
RepositoryBuildManifests(fs, builds, repository_id, repository_version, ok) ==
    LET held == {k \in DOMAIN builds : /\ builds[k].game_id = GameId
                                       /\ builds[k].repository_id = repository_id}
        url == RepositoryApiUrl(GameId, Platform, repository_id, repository_version)
        doc == RepositoryDoc(repository_id)
        form == IF repository_version = 2 THEN "raw" ELSE "dumps"
        saved == SaveRawBuildManifest(url)
        rec == ArchiveManifestRecord(GameId, repository_id, Platform, doc, url,
                                     DocBytes(doc, form), "", {}, repository_id)
        fetched == held = {} /\ ok
        archived == fetched /\ ~saved.raises
    IN [files |-> IF fetched THEN ArchiveManifestFiles(fs, url, doc, form) ELSE fs,
        archived_builds |-> IF archived THEN PutBuild(builds, rec) ELSE builds,
        returned |-> IF held # {} THEN {builds[CHOOSE k \in held : TRUE]}
                     ELSE IF archived THEN {rec} ELSE {},
        saved |-> archived,
        answered |-> held # {} \/ ok]

\* archive_repository_build_manifests called on its own: the database is
\* saved when a build was archived
ArchiveRepositoryBuildManifests(repository_id, repository_version, ok) ==
    /\ save_pc.at = "idle"
    /\ arch_pc = "idle"
    /\ LET call == RepositoryBuildManifests(files, archived_builds, repository_id,
                                            repository_version, ok)
       IN /\ files' = call.files
          /\ archived_builds' = call.archived_builds
          /\ IF call.saved
             THEN /\ database' = SaveDatabase(archived_builds')
                  /\ index_writes' = index_writes + 1
             ELSE UNCHANGED <<database, index_writes>>
    /\ UNCHANGED <<archived_manifests, depot_route, archProc, archLog, wrote>>
    /\ UNCHANGED <<chunkVars, blobVars>>
    /\ UNCHANGED toolVars
    /\ UNCHANGED callVars

\* archive_build_manifests for platform windows, lines 521-597, as the
\* manifests-only call uses it: the files and the builds after the call, the
\* builds it returns, and whether every request it made was answered
BuildManifests(fs, builds, build_id, list1_ok, list2_ok, link_ok) ==
    LET in1 == list1_ok /\ \E b \in BuildsItems(1) : b.build_id = build_id
        in2 == ~in1 /\ list2_ok /\ \E b \in BuildsItems(2) : b.build_id = build_id
        target_build == CHOOSE b \in BuildsItems(IF in1 THEN 1 ELSE 2) :
                            in1 \/ in2 => b.build_id = build_id
        key == BuildKey(GameId, build_id, Platform)
        doc == BuildDoc(target_build.link)
        form == IF DocCompressed(doc) THEN "raw" ELSE "dumps"
        saved == SaveRawBuildManifest(target_build.link)
        rec == ArchiveManifestRecord(GameId, build_id, Platform, doc,
                                     target_build.link, DocBytes(doc, form), "", {},
                                     target_build.legacy_build_id)
        known == (in1 \/ in2) /\ key \in DOMAIN builds
        fetched == (in1 \/ in2) /\ ~known /\ link_ok
        archived == fetched /\ ~saved.raises
    IN [files |-> IF fetched
                  THEN ArchiveManifestFiles(fs, target_build.link, doc, form) ELSE fs,
        archived_builds |-> IF archived THEN PutBuild(builds, rec) ELSE builds,
        returned |-> IF known THEN {builds[key]} ELSE IF archived THEN {rec} ELSE {},
        saved |-> archived,
        answered |-> list1_ok /\ (in1 \/ list2_ok) /\ (known \/ fetched)]

\* no manifests-only call has been made
NoCall == [mode |-> "none", target |-> "", answered |-> TRUE, errors |-> {}]

\* the depot manifest ids the manifests-only calls read out of the build
\* manifest on disk (lines 1176-1213, 715-752)
OnlyDepotIds(fs, build) ==
    IF build.archive_path \in DOMAIN fs
    THEN Range(DocDepots(fs[build.archive_path].doc))
    ELSE {}

\* lines 1226-1241 (772-786): the path whose existence makes the call skip
\* the depot manifest
OnlyDepotPath(build, manifest_id) ==
    IF build.version = 2 THEN DepotsPath(manifest_id)
    ELSE V1DepotManifestPath(build, manifest_id)

\* the depot manifests the call requests: the ones not skipped by the
\* caller and not found by _download_v2_depot_manifest_only (lines
\* 1782-1790) or _download_v1_depot_manifest_only
OnlyRequested(fs, held, build) ==
    {m \in OnlyDepotIds(fs, build) :
        /\ OnlyDepotPath(build, m) \notin DOMAIN fs
        /\ IF build.version = 2 THEN ~ManifestOnlyExists(fs, m) ELSE m \notin held}

\* the path the raw depot manifest is saved at
OnlyRawPath(build, manifest_id) ==
    IF build.version = 2
    THEN SaveRawDepotManifest(DepotUrlsToTry(GalaxyPath(manifest_id))[depot_route])
    ELSE SaveRawDepotManifest(V1DepotUrl(build.game_id, build.platform,
                                         build.repository_id, manifest_id))

\* the files after the depot manifests in fetched were saved:
\* _download_v2_depot_manifest_only writes the raw file and a prettified
\* copy (lines 1822-1845), _download_v1_depot_manifest_only the raw file
OnlyFiles(fs, build, fetched) ==
    LET raw == [p \in {OnlyRawPath(build, m) : m \in fetched} |->
                   [doc |-> DepotDoc(CHOOSE m \in fetched : OnlyRawPath(build, m) = p),
                    form |-> IF build.version = 2 THEN "raw" ELSE "dumps"]]
        pretty == [p \in {OnlyRawPath(build, m) \o ".json" :
                            m \in IF build.version = 2 THEN fetched ELSE {}} |->
                      [doc |-> DepotDoc(CHOOSE m \in fetched :
                                           OnlyRawPath(build, m) \o ".json" = p),
                       form |-> "pretty"]]
    IN pretty @@ raw @@ fs

\* the manifests-only calls after their build manifests call has returned
\* (lines 1165-1276, 706-821): no build gives an error and ends the call;
\* else the depot manifests of the build are downloaded, the ones in failed
\* are not answered, and the database is saved
ManifestsOnly(mode, target, call, failed) ==
    /\ arch_pc = "idle"
    /\ pc = "idle"
    /\ chunk_run = "idle"
    /\ save_pc.at = "idle"
    /\ archived_builds' = call.archived_builds
    /\ IF call.returned = {}
       THEN /\ files' = call.files
            /\ database' = IF call.saved THEN SaveDatabase(call.archived_builds)
                           ELSE database
            /\ only_call' = [mode |-> mode, target |-> target,
                             answered |-> call.answered,
                             errors |-> {"no manifests " \o target}]
            /\ UNCHANGED archived_manifests
       ELSE LET build == CHOOSE b \in call.returned : TRUE
                requested == OnlyRequested(call.files, archived_manifests, build)
                fetched == requested \ failed
            IN /\ files' = OnlyFiles(call.files, build, fetched)
               /\ archived_manifests' = archived_manifests \cup fetched
               /\ database' = SaveDatabase(call.archived_builds)
               /\ only_call' =
                     [mode |-> mode, target |-> target,
                      answered |-> call.answered /\ requested \cap failed = {},
                      errors |-> {"depot manifest " \o m : m \in requested \cap failed}
                                 \cup (IF build.archive_path \in DOMAIN call.files
                                       THEN {} ELSE {"read " \o build.archive_path})]
    /\ UNCHANGED <<depot_route, archProc, archLog, wrote, index_writes>>
    /\ UNCHANGED <<chunkVars, blobVars>>
    /\ UNCHANGED toolVars
    /\ UNCHANGED <<listed, blob_path, arch_errors, arch_platforms>>

\* archive_build_and_depot_manifests_only, lines 1147-1276
ArchiveBuildAndDepotManifestsOnly(build_id, list1_ok, list2_ok, link_ok, failed) ==
    ManifestsOnly("build", build_id,
                  BuildManifests(files, archived_builds, build_id, list1_ok, list2_ok,
                                 link_ok),
                  failed)

\* archive_repository_and_depot_manifests_only, lines 687-821
ArchiveRepositoryAndDepotManifestsOnly(repository_id, repository_version, ok, failed) ==
    ManifestsOnly("repository", repository_id,
                  RepositoryBuildManifests(files, archived_builds, repository_id,
                                           repository_version, ok),
                  failed)

\* save_database, line 257: open(self.database_path, 'w') creates the file
\* or cuts it to zero bytes
SaveOpen ==
    /\ save_pc.at = "idle"
    /\ arch_pc = "idle"
    /\ database' = [exists |-> TRUE, complete |-> FALSE, builds |-> << >>]
    /\ save_pc' = [at |-> "open", previous |-> database]
    /\ UNCHANGED <<archStore, archProc, archLog, wrote, index_writes>>
    /\ UNCHANGED <<chunkVars, blobVars>>
    /\ UNCHANGED <<dirs, validation, repair_stats, out_files, extraction, writers>>
    /\ UNCHANGED callVars

\* save_database, line 258: json.dump has written the document as far as
\* one more build when the file object flushes
SaveDump(key) ==
    /\ save_pc.at \in {"open", "dump"}
    /\ key \in DOMAIN archived_builds
    /\ archived_builds[key] \notin Range(database.builds)
    /\ database' = [database EXCEPT !.builds = Append(@, archived_builds[key])]
    /\ save_pc' = [save_pc EXCEPT !.at = "dump"]
    /\ UNCHANGED <<archStore, archProc, archLog, wrote, index_writes>>
    /\ UNCHANGED <<chunkVars, blobVars>>
    /\ UNCHANGED <<dirs, validation, repair_stats, out_files, extraction, writers>>
    /\ UNCHANGED callVars

\* save_database: the with block ends, the rest of the document is flushed
\* and the file is closed
SaveClose ==
    /\ save_pc.at \in {"open", "dump"}
    /\ database' = SaveDatabase(archived_builds)
    /\ save_pc' = NoSave
    /\ UNCHANGED <<archStore, archProc, archLog, wrote, index_writes>>
    /\ UNCHANGED <<chunkVars, blobVars>>
    /\ UNCHANGED <<dirs, validation, repair_stats, out_files, extraction, writers>>
    /\ UNCHANGED callVars

\* the process is killed between open and close: the file stays as it is
SaveKill ==
    /\ save_pc.at \in {"open", "dump"}
    /\ save_pc' = [save_pc EXCEPT !.at = "dead"]
    /\ UNCHANGED archVars
    /\ UNCHANGED <<chunkVars, blobVars>>
    /\ UNCHANGED <<dirs, validation, repair_stats, out_files, extraction, writers>>
    /\ UNCHANGED callVars

\* a new archiver process after the kill: __init__ and load_database
RestartAfterKill ==
    /\ save_pc.at = "dead"
    /\ archived_builds' = LoadDatabase(database)
    /\ archived_manifests' = {}
    /\ save_pc' = NoSave
    /\ UNCHANGED <<files, depot_route, archProc, archLog, database, wrote, index_writes>>
    /\ UNCHANGED <<chunkVars, blobVars>>
    /\ UNCHANGED <<dirs, validation, repair_stats, out_files, extraction, writers>>
    /\ UNCHANGED callVars

----------------------------------------------------------------------------
(* Chunk files, write by write.  A pool worker that has its response calls  *)
(* _save_raw_chunk, which opens the hash-named path for writing, writes the *)
(* body and closes the file.                                                *)

\* no chunk write is in progress
NoWriters == [h \in {} |-> ""]

\* the writers without the one of chunk h
WithoutWriter(h) == [k \in (DOMAIN writers) \ {h} |-> writers[k]]

\* _save_raw_chunk, line 422: open(save_path, 'wb') creates the file at the
\* hash-named path or cuts it to zero bytes; the worker holds the body
WorkerOpen(h, resp) ==
    /\ chunk_run = "pool"
    /\ h \in chunk_todo
    /\ h \notin DOMAIN writers
    /\ chunks' = SaveRawChunk(chunks, h, "E0")
    /\ writers' = [k \in (DOMAIN writers) \cup {h} |-> IF k = h THEN resp ELSE writers[k]]
    /\ wrote' = Log("chunk")
    /\ UNCHANGED <<chunk_run, chunk_todo, chunk_result>>
    /\ UNCHANGED <<archStore, archProc, archLog, database, index_writes>>
    /\ UNCHANGED blobVars
    /\ UNCHANGED <<dirs, validation, repair_stats, out_files, extraction, save_pc>>
    /\ UNCHANGED callVars

\* _save_raw_chunk, line 423: f.write(raw_data) has put the first part of
\* the body into the file
WorkerWrite(h) ==
    /\ h \in DOMAIN writers
    /\ chunks[h] = "E0"
    /\ chunks' = [chunks EXCEPT ![h] = "H1"]
    /\ UNCHANGED <<chunk_run, chunk_todo, chunk_result>>
    /\ UNCHANGED <<blobVars, archVars>>
    /\ UNCHANGED <<dirs, validation, repair_stats, out_files, extraction, writers, save_pc>>
    /\ UNCHANGED callVars

\* the write ends and the file is closed with the whole body in it; the
\* worker compares the MD5 of the body with the chunk name and the main
\* thread books its result (lines 3897-3902, 3068-3082)
WorkerClose(h) ==
    /\ h \in DOMAIN writers
    /\ chunks' = SaveRawChunk(chunks, h, writers[h])
    /\ chunk_todo' = chunk_todo \ {h}
    /\ chunk_result' =
          IF DownloadSingleOk(h, writers[h])
          THEN [chunk_result EXCEPT !.ok = @ \cup {h}]
          ELSE [chunk_result EXCEPT !.errors = @ \cup {h}]
    /\ writers' = WithoutWriter(h)
    /\ UNCHANGED chunk_run
    /\ UNCHANGED <<blobVars, archVars>>
    /\ UNCHANGED <<dirs, validation, repair_stats, out_files, extraction, save_pc>>
    /\ UNCHANGED callVars

\* the write raises part-way (the worker crashes in mid-write): the file
\* stays as far as it was written, the handler at line 3920 returns None
WorkerCrash(h) ==
    /\ h \in DOMAIN writers
    /\ chunk_todo' = chunk_todo \ {h}
    /\ chunk_result' = [chunk_result EXCEPT !.errors = @ \cup {h}]
    /\ writers' = WithoutWriter(h)
    /\ UNCHANGED <<chunks, chunk_run>>
    /\ UNCHANGED <<blobVars, archVars>>
    /\ UNCHANGED <<dirs, validation, repair_stats, out_files, extraction, save_pc>>
    /\ UNCHANGED callVars

\* the request of a worker fails: raise_for_status raises, nothing is written
WorkerError(h) ==
    /\ h \notin DOMAIN writers
    /\ PoolWorker(h, HttpError)

\* the chunk download paths when no call is running
InitChunkIdle ==
    /\ chunk_run = "idle"
    /\ chunk_todo = {}
    /\ chunk_result = NoResult

\* the validator, repair and extractor results before any call, no write in progress
InitToolIdle ==
    /\ validation = NoValidation
    /\ repair_stats = NoRepair
    /\ out_files = NoOutput
    /\ extraction = NoExtraction
    /\ writers = NoWriters
    /\ save_pc = NoSave
    /\ listed = {}
    /\ blob_path = IF blob_exists THEN ArchiveBlobPath(Build1) ELSE NoPath
    /\ arch_errors = {}
    /\ only_call = NoCall
    /\ arch_platforms = {}

----------------------------------------------------------------------------
(* Specifications *)

ChunkStep ==
    \/ \E S \in (SUBSET ChunkIds) \ {{}} : PoolStart(S, TRUE)
    \/ \E h \in ChunkIds, resp \in ChunkResponses : PoolWorker(h, resp)
    \/ PoolFinish
    \/ \E S \in (SUBSET ChunkIds) \ {{}} : RepairStart(S)
    \/ \E h \in ChunkIds, resp \in ChunkResponses : RepairChunk(h, resp)
    \/ RepairFinish

InitChunk ==
    /\ InitChunkVars
    /\ InitBlobVars
    /\ InitArchiveVars
    /\ blob_data = <<1>>
    /\ depot_route = 2
    /\ InitToolIdle
    /\ dirs = TopDirs

NextChunk == ChunkStep

SpecChunk == InitChunk /\ [][NextChunk]_vars

BlobStep ==
    \/ \E head \in HeadResponses : StartBlob(head)
    \/ \E resp \in GetResponses : GetChunk(resp)
    \/ ExtendFile
    \/ WriteChunk
    \/ RecordChunk
    \/ UpdateHashes
    \/ CommitChunk
    \/ FinalJson
    \/ AfterDownload
    \/ \E n \in 0..(ChunkSize - 1) : Interrupt(n)
    \/ \E n \in 0..(ChunkSize - 1) : IOError(n)
    \/ \E n \in 0..(ChunkSize - 1) : Kill(n)

InitBlob ==
    /\ InitChunkVars
    /\ InitBlobVars
    /\ InitArchiveVars
    /\ blob_data \in Blobs
    /\ depot_route = 2
    /\ InitToolIdle
    /\ dirs = TopDirs

NextBlob == BlobStep

SpecBlob == InitBlob /\ [][NextBlob]_vars

\* what the chunk CDN answers in the archive walk: the body of one of the
\* two chunks (the requested one or the other one) or an error
ArchiveChunkResponses == {"P1", "P2", HttpError}

\* the places the depot manifest is served at: 1 collector /manifests/depots/,
\* 2 CDN /content-system/v2/meta/, 3 collector /depots/
DepotRoutes == 1..3

\* the archive walk over the gen-1 build
Archive1Step ==
    \/ ArchiveBuild("B1", {Platform})
    \/ \E list1_ok, list2_ok, link_ok \in BOOLEAN :
          ArchiveBuildManifests(list1_ok, list2_ok, link_ok)
    \/ ContentStart
    \/ \E ok \in BOOLEAN : DownloadV1Depot(ok)
    \/ DeduplicateBlobUrls
    \/ \E head \in HeadResponses : V1Blob(head)
    \/ \E resp \in GetResponses : GetChunk(resp)
    \/ ExtendFile
    \/ WriteChunk
    \/ RecordChunk
    \/ UpdateHashes
    \/ CommitChunk
    \/ FinalJson
    \/ AfterDownload
    \/ V1BlobEnd
    \/ ContentEnd
    \/ ArchiveFinish

InitArchive1 ==
    /\ InitChunkVars
    /\ InitBlobVars
    /\ InitArchiveVars
    /\ blob_data \in Blobs1
    /\ depot_route = 2
    /\ InitToolIdle
    /\ dirs = TopDirs

NextArchive1 == Archive1Step

SpecArchive1 == InitArchive1 /\ [][NextArchive1]_vars

\* the archive walk over the gen-2 build, by build id and by repository id
Archive2Step ==
    \/ ArchiveBuild("B2", {Platform})
    \/ \E ok \in BOOLEAN : ArchiveRepository(RepositoryId, ok)
    \/ \E list1_ok, list2_ok, link_ok \in BOOLEAN :
          ArchiveBuildManifests(list1_ok, list2_ok, link_ok)
    \/ ContentStart
    \/ \E ok \in BOOLEAN : ArchiveV2Depot(ok, "zlib")
    \/ \E h \in ChunkIds, resp \in ArchiveChunkResponses : PoolWorker(h, resp)
    \/ PoolFinish
    \/ AfterChunks
    \/ ContentEnd
    \/ ArchiveFinish
    \/ Restart

InitArchive2 ==
    /\ InitChunkVars
    /\ InitBlobVars
    /\ InitArchiveVars
    /\ blob_data = <<1>>
    /\ depot_route \in DepotRoutes
    /\ InitToolIdle
    /\ dirs = TopDirs

NextArchive2 == Archive2Step

SpecArchive2 == InitArchive2 /\ [][NextArchive2]_vars

\* validate on an archive that is damaged in up to MaxDamage places, and on
\* an empty archive root
ValidateStep ==
    \/ \E path \in ManifestPaths : LoseManifest(path)
    \/ \E h \in Build2Chunks, content \in {"X1", "T1", NoValue} : DamageChunk(h, content)
    \/ \E bytes \in DamagedBlobs : DamageBlob(bytes)
    \/ LoseBlob
    \/ \E build_id \in {"B1", RepositoryId, NoValue} : Validate(build_id)

InitValidate ==
    /\ InitArchived \/ InitEmptyRoot
    /\ InitChunkIdle
    /\ InitBlobIdle
    /\ InitArchiveIdle
    /\ InitToolIdle

NextValidate == ValidateStep

SpecValidate == InitValidate /\ [][NextValidate]_vars

\* the bodies the server answers a chunk request of the repair path with
RepairResponses == {"P1", "P2", "X1", HttpError}

\* repair of the gen-2 repository on an archive that is damaged in up to
\* MaxDamage places
RepairStep ==
    \/ \E path \in ManifestPaths : LoseManifest(path)
    \/ \E h \in Build2Chunks, content \in {"X1", "T1", NoValue} : DamageChunk(h, content)
    \/ VerifyAndDownload(RepositoryId)
    \/ \E h \in ChunkIds, resp \in RepairResponses : RepairChunk(h, resp)
    \/ RepairFinish

InitRepair ==
    /\ InitArchived
    /\ InitChunkIdle
    /\ InitBlobIdle
    /\ InitArchiveIdle
    /\ InitToolIdle

NextRepair == RepairStep

SpecRepair == InitRepair /\ [][NextRepair]_vars

\* the builds extract is asked for: the two archived ones and one the Build
\* Index does not hold
ExtractTargets == {"B1", RepositoryId, "B9"}

\* extract, with and without checksum verification, from an archive that is
\* damaged in up to MaxDamage places
ExtractStep ==
    \/ \E path \in ManifestPaths : LoseManifest(path)
    \/ \E h \in Build2Chunks, content \in {"X1", "T1", NoValue} : DamageChunk(h, content)
    \/ \E bytes \in DamagedBlobs : DamageBlob(bytes)
    \/ LoseBlob
    \/ \E build_id \in ExtractTargets, verify_checksums \in BOOLEAN, dry_run \in BOOLEAN :
          Extract(build_id, verify_checksums, dry_run)

InitExtract ==
    /\ InitArchived
    /\ InitChunkIdle
    /\ InitBlobIdle
    /\ InitArchiveIdle
    /\ InitToolIdle

NextExtract == ExtractStep

SpecExtract == InitExtract /\ [][NextExtract]_vars

\* builds are archived and the Build Index is saved, with kills during the save
SaveStep ==
    \/ \E rec \in SaveTargets : ArchiveManifest(rec)
    \/ SaveOpen
    \/ \E rec \in SaveTargets : SaveDump(BuildKey(rec.game_id, rec.build_id, rec.platform))
    \/ SaveClose
    \/ SaveKill
    \/ RestartAfterKill

InitSave ==
    /\ InitChunkVars
    /\ InitBlobVars
    /\ InitArchiveVars
    /\ blob_data = <<1>>
    /\ depot_route = 2
    /\ InitToolIdle
    /\ dirs = TopDirs

NextSave == SaveStep

SpecSave == InitSave /\ [][NextSave]_vars

\* the bodies the chunk CDN answers a pool worker with in these runs
WriteResponses == {"P1", "P2", "X1"}

\* the chunk download pool with the file of each worker written step by step
ChunkWriteStep ==
    \/ \E S \in (SUBSET ChunkIds) \ {{}}, link_ok \in BOOLEAN : PoolStart(S, link_ok)
    \/ \E h \in ChunkIds, resp \in WriteResponses : WorkerOpen(h, resp)
    \/ \E h \in ChunkIds : WorkerWrite(h)
    \/ \E h \in ChunkIds : WorkerClose(h)
    \/ \E h \in ChunkIds : WorkerCrash(h)
    \/ \E h \in ChunkIds : WorkerError(h)
    \/ PoolFinish

InitChunkWrite ==
    /\ InitChunkVars
    /\ InitBlobVars
    /\ InitArchiveVars
    /\ blob_data = <<1>>
    /\ depot_route = 2
    /\ InitToolIdle
    /\ dirs = TopDirs

NextChunkWrite == ChunkWriteStep

SpecChunkWrite == InitChunkWrite /\ [][NextChunkWrite]_vars

\* the version names and the tags the listing reports when the metadata is synced
ApiVersionNames == {"", "1.1"}

ApiTags == {{}, {"beta"}}

\* build manifests are archived, the listed builds are synced into the Build
\* Index, and the archiver is started again
SyncStep ==
    \/ \E rec \in SaveTargets : ArchiveManifest(rec)
    \/ \E ok1, ok2 \in BOOLEAN, version_name \in ApiVersionNames, tags \in ApiTags :
          SyncBuildMetadata(ok1, ok2, version_name, tags)
    \/ Restart

InitSync ==
    /\ InitChunkVars
    /\ InitBlobVars
    /\ InitArchiveVars
    /\ blob_data = <<1>>
    /\ depot_route = 2
    /\ InitToolIdle
    /\ dirs = TopDirs

NextSync == SyncStep

SpecSync == InitSync /\ [][NextSync]_vars

\* the repository ids and API versions the repository mode is called with
RepositoryIds == {"R1", "R3", "b2c3"}

RepositoryVersions == {1, 2}

\* build manifests are archived by build and by repository id
CodecStep ==
    \/ \E rec \in SaveTargets : ArchiveManifest(rec)
    \/ \E repository_id \in RepositoryIds, repository_version \in RepositoryVersions,
          ok \in BOOLEAN :
          ArchiveRepositoryBuildManifests(repository_id, repository_version, ok)
    \/ Restart

InitCodec ==
    /\ InitChunkVars
    /\ InitBlobVars
    /\ InitArchiveVars
    /\ blob_data = <<1>>
    /\ depot_route = 2
    /\ InitToolIdle
    /\ dirs = TopDirs

NextCodec == CodecStep

SpecCodec == InitCodec /\ [][NextCodec]_vars

\* the generation argument of list_builds: 0 for None
Generations == 0..2

\* the build listed in both generations is archived by build id, and the
\* builds of the product are listed
ListStep ==
    \/ ArchiveBuild("B3", {Platform})
    \/ \E list1_ok, list2_ok, link_ok \in BOOLEAN :
          ArchiveBuildManifests(list1_ok, list2_ok, link_ok)
    \/ ContentStart
    \/ \E ok \in BOOLEAN : DownloadV1Depot(ok)
    \/ DeduplicateBlobUrls
    \/ \E head \in HeadResponses : V1Blob(head)
    \/ \E resp \in GetResponses : GetChunk(resp)
    \/ ExtendFile
    \/ WriteChunk
    \/ RecordChunk
    \/ UpdateHashes
    \/ CommitChunk
    \/ FinalJson
    \/ AfterDownload
    \/ V1BlobEnd
    \/ \E ok \in BOOLEAN : ArchiveV2Depot(ok, "zlib")
    \/ \E h \in ChunkIds, resp \in ArchiveChunkResponses : PoolWorker(h, resp)
    \/ PoolFinish
    \/ AfterChunks
    \/ ContentEnd
    \/ ArchiveFinish
    \/ \E ok1, ok2 \in BOOLEAN, generation \in Generations :
          ListBuildsCall(ok1, ok2, generation)

InitList ==
    /\ InitChunkVars
    /\ InitBlobVars
    /\ InitArchiveVars
    /\ blob_data = <<1>>
    /\ depot_route = 2
    /\ InitToolIdle
    /\ dirs = TopDirs

NextList == ListStep

SpecList == InitList /\ [][NextList]_vars

\* archive_build of the build listed in both generations, whose gen-1
\* manifest has a redistributable entry, and of the gen-2 repository whose
\* manifest has one
DepotsStep ==
    \/ ArchiveBuild("B3", {Platform})
    \/ \E list1_ok, link_ok \in BOOLEAN : ArchiveBuildManifests(list1_ok, TRUE, link_ok)
    \/ \E ok \in BOOLEAN : ArchiveRepository(RepositoryIdRedist, ok)
    \/ ContentStart
    \/ \E ok \in BOOLEAN : DownloadV1Depot(ok)
    \/ DeduplicateBlobUrls
    \/ V1Blob("length")
    \/ \E resp \in GetResponses : GetChunk(resp)
    \/ ExtendFile
    \/ WriteChunk
    \/ RecordChunk
    \/ UpdateHashes
    \/ CommitChunk
    \/ FinalJson
    \/ AfterDownload
    \/ V1BlobEnd
    \/ \E ok \in BOOLEAN : ArchiveV2Depot(ok, "zlib")
    \/ \E h \in ChunkIds, resp \in ArchiveChunkResponses : PoolWorker(h, resp)
    \/ PoolFinish
    \/ AfterChunks
    \/ ContentEnd
    \/ ArchiveFinish

InitDepots ==
    /\ InitChunkVars
    /\ InitBlobVars
    /\ InitArchiveVars
    /\ blob_data = <<1>>
    /\ depot_route = 2
    /\ InitToolIdle
    /\ dirs = TopDirs

NextDepots == DepotsStep

SpecDepots == InitDepots /\ [][NextDepots]_vars

\* a record of an index document written with the legacy keys
LegacyRow(build) ==
    [game_id |-> build.game_id, build_id |-> build.build_id,
     manifest_hash |-> build.build_hash, platform |-> build.platform,
     version |-> build.version, archive_path |-> build.archive_path,
     cdn_url |-> build.cdn_url, chunks_referenced |-> << >>]

\* a record that lacks archive_path
BrokenRow(build) ==
    [game_id |-> build.game_id, build_id |-> build.build_id,
     build_hash |-> build.build_hash, platform |-> build.platform,
     version |-> build.version, cdn_url |-> build.cdn_url]

\* the records of the index documents: two with current keys, one with
\* legacy keys, one that cannot be parsed
IndexRows == {Build1, Build2, LegacyRow(Build2), BrokenRow(Build2ById)}

\* how many records an index document of these runs holds at most
MaxRows == 3

\* index documents of up to MaxRows records with no build listed twice
IndexDocuments ==
    {rows \in UNION {[1..n -> IndexRows] : n \in 0..MaxRows} :
        \A i, j \in 1..Len(rows) : i # j => rows[i].build_id # rows[j].build_id}

\* an archiver process started on an index document, and save_database
IndexStep ==
    \/ SaveOpen
    \/ \E rec \in SaveTargets : SaveDump(BuildKey(rec.game_id, rec.build_id, rec.platform))
    \/ SaveClose
    \/ SaveKill
    \/ RestartAfterKill
    \/ Restart

InitIndex ==
    /\ InitChunkVars
    /\ InitBlobVars
    /\ blob_data = <<1>>
    /\ InitArchiveIdle
    /\ files = ArchivedFiles2(ArchivedFiles1(NoFiles))
    /\ stored_v2 = NoData
    /\ database \in {[exists |-> TRUE, complete |-> TRUE, builds |-> rows] :
                        rows \in IndexDocuments}
    /\ archived_builds = LoadDatabase(database)
    /\ InitToolIdle
    /\ dirs = TopDirs

NextIndex == IndexStep

SpecIndex == InitIndex /\ [][NextIndex]_vars

\* the depot manifests whose requests fail in a manifests-only call
FailedDepots == {{}, {"d1e2", "m1.json"}}

\* manifests-only calls by build id and by repository id, on an archive
\* that holds none, some or all of the build manifests
OnlyStep ==
    \/ \E rec \in SaveTargets : ArchiveManifest(rec)
    \/ \E build_id \in {"B1", "B2"}, list1_ok, link_ok \in BOOLEAN,
          failed \in FailedDepots :
          ArchiveBuildAndDepotManifestsOnly(build_id, list1_ok, TRUE, link_ok, failed)
    \/ \E ok \in BOOLEAN, failed \in FailedDepots :
          ArchiveRepositoryAndDepotManifestsOnly(RepositoryId, 2, ok, failed)
    \/ Restart

InitOnly ==
    /\ InitChunkVars
    /\ InitBlobVars
    /\ InitArchiveVars
    /\ blob_data = <<1>>
    /\ depot_route = 1
    /\ InitToolIdle
    /\ dirs = TopDirs

NextOnly == OnlyStep

SpecOnly == InitOnly /\ [][NextOnly]_vars

\* archive_build of the gen-2 build with depot manifests served by the CDN in
\* each encoding, and extract on what was archived
EncodingStep ==
    \/ ArchiveBuild("B2", {Platform})
    \/ \E link_ok \in BOOLEAN : ArchiveBuildManifests(TRUE, TRUE, link_ok)
    \/ ContentStart
    \/ \E encoding \in Encodings : ArchiveV2Depot(TRUE, encoding)
    \/ \E h \in ChunkIds, resp \in ArchiveChunkResponses : PoolWorker(h, resp)
    \/ PoolFinish
    \/ AfterChunks
    \/ ContentEnd
    \/ ArchiveFinish
    \/ Extract("B2", FALSE, FALSE)

InitEncoding ==
    /\ InitChunkVars
    /\ InitBlobVars
    /\ InitArchiveVars
    /\ blob_data = <<1>>
    /\ depot_route = 2
    /\ InitToolIdle
    /\ dirs = TopDirs

NextEncoding == EncodingStep

SpecEncoding == InitEncoding /\ [][NextEncoding]_vars

\* the metadata of the product is synced and the gen-2 build is archived, in
\* full or manifests only, in any order
RecordsStep ==
    \/ \E ok1, ok2 \in BOOLEAN : SyncBuildMetadata(ok1, ok2, "", {})
    \/ ArchiveBuild("B2", {Platform})
    \/ \E link_ok \in BOOLEAN : ArchiveBuildManifests(TRUE, TRUE, link_ok)
    \/ \E link_ok \in BOOLEAN :
          ArchiveBuildAndDepotManifestsOnly("B2", TRUE, TRUE, link_ok, {})
    \/ ContentStart
    \/ \E ok \in BOOLEAN : ArchiveV2Depot(ok, "zlib")
    \/ \E h \in ChunkIds, resp \in ArchiveChunkResponses : PoolWorker(h, resp)
    \/ PoolFinish
    \/ AfterChunks
    \/ ContentEnd
    \/ ArchiveFinish
    \/ Restart

InitRecords ==
    /\ InitChunkVars
    /\ InitBlobVars
    /\ InitArchiveVars
    /\ blob_data = <<1>>
    /\ depot_route = 2
    /\ InitToolIdle
    /\ dirs = TopDirs

NextRecords == RecordsStep

SpecRecords == InitRecords /\ [][NextRecords]_vars

\* the platforms arguments of archive_build
PlatformLists == (SUBSET {Platform, OtherPlatform}) \ {{}}

\* archive_build of the gen-2 build, asked for on one platform or on both,
\* call after call on the same archive
PlatformsStep ==
    \/ \E platforms \in PlatformLists : ArchiveBuild("B2", platforms)
    \/ \E link_ok \in BOOLEAN : ArchiveBuildManifests(TRUE, TRUE, link_ok)
    \/ ContentStart
    \/ \E ok \in BOOLEAN : ArchiveV2Depot(ok, "zlib")
    \/ \E h \in ChunkIds, resp \in ArchiveChunkResponses : PoolWorker(h, resp)
    \/ PoolFinish
    \/ AfterChunks
    \/ ContentEnd
    \/ ArchiveFinish

InitPlatforms ==
    /\ InitChunkVars
    /\ InitBlobVars
    /\ InitArchiveVars
    /\ blob_data = <<1>>
    /\ depot_route = 2
    /\ InitToolIdle
    /\ dirs = TopDirs

NextPlatforms == PlatformsStep

SpecPlatforms == InitPlatforms /\ [][NextPlatforms]_vars

\* the depot manifests a server may hold for the two archived builds: the
\* file records as before, or with a path that starts with two slashes, one
\* slash, or that has parent-directory segments
ServedDepotDocs(manifest_id) ==
    CASE manifest_id = "m1.json" -> {"depot_m1", "depot_m1_slashes"}
      [] manifest_id = "m2.json" -> {"depot_m2", "depot_m2_parent"}
      [] manifest_id = "d1e2" -> {"depot_d1e2", "depot_d1e2_slash"}
      [] manifest_id = "f3a4" -> {"depot_f3a4", "depot_f3a4_parent"}

\* the depot manifests of the two archived builds
ServedDepotIds == {"m1.json", "m2.json", "d1e2", "f3a4"}

\* what a server may hold for all of them
ServedDocs ==
    {docs \in [ServedDepotIds -> UNION {ServedDepotDocs(m) : m \in ServedDepotIds}] :
        \A m \in ServedDepotIds : docs[m] \in ServedDepotDocs(m)}

\* the archive after both builds were archived from a server that holds the
\* depot manifests docs
ArchivedFilesServed(docs) ==
    LET fs == ArchivedFiles2(ArchivedFiles1(NoFiles))
        id(p) == CHOOSE m \in ServedDepotIds : DepotDoc(m) = fs[p].doc
    IN [p \in DOMAIN fs |->
           IF \E m \in ServedDepotIds : DepotDoc(m) = fs[p].doc
           THEN [fs[p] EXCEPT !.doc = docs[id(p)]] ELSE fs[p]]

\* extract, with and without checksum verification, from archives whose
\* depot manifests hold any of the served file record paths
ConfineStep ==
    \/ \E path \in ManifestPaths : LoseManifest(path)
    \/ \E build_id \in {"B1", RepositoryId}, verify_checksums \in BOOLEAN :
          Extract(build_id, verify_checksums, FALSE)

InitConfine ==
    /\ \E docs \in ServedDocs : files = ArchivedFilesServed(docs)
    /\ chunks = [h \in Build2Chunks |-> GenuinePayload(h)]
    /\ blob_data = ArchivedBlob
    /\ blob_exists = TRUE
    /\ blob_bytes = ArchivedBlob
    /\ json = GenerateBlobChecksumJson(NoJson, TRUE, ArchivedBlob, Len(ArchivedBlob))
    /\ xml = GenerateBlobChecksumXml(NoXml, TRUE, ArchivedBlob, Len(ArchivedBlob))
    /\ archived_builds = PutBuild(PutBuild(NoBuilds, Build1), Build2)
    /\ database = SaveDatabase(PutBuild(PutBuild(NoBuilds, Build1), Build2))
    /\ stored_v2 = [m \in Range(DocDepots("build_b2c3")) |-> MetaPath(m)]
    /\ dirs = TopDirs
    /\ InitChunkIdle
    /\ InitBlobIdle
    /\ InitArchiveIdle
    /\ InitToolIdle

NextConfine == ConfineStep

SpecConfine == InitConfine /\ [][NextConfine]_vars

----------------------------------------------------------------------------
\* C1: every file under chunks/ has MD5 equal to its file name; a download
\* whose body does not hash to the requested name leaves no file at the
\* hash-named path and is not counted as a successful download.
C1_ChunkIntegrity ==
    /\ \A h \in DOMAIN chunks : MD5(chunks[h]) = h
    /\ \A h \in chunk_result.ok : ValidateChunkExistsWithHash(chunks, h)

\* bytes of the blob file in the range of a sidecar row
RowBytes(row) == ReadAt(blob_bytes, row.from, row.to - row.from + 1)

\* C2: every block listed in the sidecar has on-disk bytes in its byte range
\* whose digest equals the digest recorded for it.
C2_SidecarConsistent ==
    \A id \in DOMAIN json.chunk_hashes :
        Digest(RowBytes(json.chunk_hashes[id])) = json.chunk_hashes[id].digest

\* C2 witness: after an interrupted run and a failed resumed run the sidecar
\* lists two blocks
C2_Witness ==
    /\ pc = "idle"
    /\ blob_outcome = "failed"
    /\ interrupted_after >= 0
    /\ Cardinality(DOMAIN json.chunk_hashes) >= 2

\* the sidecar an archive step that is never stopped leaves behind
UninterruptedJson ==
    GenerateBlobChecksumJson(NoJson, TRUE, blob_data, Len(blob_data))

\* C3: a download that was stopped after block k was committed and was then
\* resumed ends with the blob file and the sidecar (rows, block ids, overall
\* hashes) of a run that was never stopped.
C3_ResumeSameAsUninterrupted ==
    (/\ pc = "idle"
     /\ blob_outcome \in {"archived", "skipped"}
     /\ ~head_lost
     /\ interrupted_after >= 0)
    => /\ blob_bytes = blob_data
       /\ json.exists
       /\ json.chunk_hashes = UninterruptedJson.chunk_hashes
       /\ json.overall = UninterruptedJson.overall

\* C4: the overall hashes of the sidecar are the hash of the listed blocks'
\* on-disk bytes, each fed once, in ascending block-id order.
C4_CumulativeHash ==
    json.exists =>
        json.overall = Digest(ConcatRows(blob_bytes, json.chunk_hashes,
                                         DOMAIN json.chunk_hashes))

\* C5: a block whose bytes were only partially written is never listed as
\* validated in the sidecar.
C5_TornNeverValidated ==
    \A id \in torn : id \notin DOMAIN json.chunk_hashes

\* the blob is complete: every block of the server's blob is in the sidecar
BlobComplete ==
    /\ blob_exists
    /\ json.exists
    /\ DOMAIN json.chunk_hashes = 0..(TotalChunks(Len(blob_data)) - 1)

\* C6: the archive walk skips the download of a blob, or counts it in
\* blobs_archived, only when the on-disk blob is complete.
C6_StalePartialNotTrusted ==
    blob_outcome \in {"archived", "skipped"} => BlobComplete

\* C7: when archive_build is invoked a second time on the same build id with
\* nothing changed on the server or on disk since the first invocation (the
\* store is complete and every request is answered), the second invocation
\* writes no manifest, chunk or blob bytes and writes the Build Index at
\* most once.
C7_IdempotentArchive ==
    (arch_pc = "idle" /\ arch_target = "B2" /\ last_target = "B2" /\ second /\ clean)
    => (wrote = {} /\ index_writes <= 1)

\* C8: no archive operation requests a build or depot manifest whose target
\* path exists on disk, and none overwrites the bytes stored there.
C8_ManifestCache ==
    /\ cache_hits = {}
    /\ cache_overwrites = {}

\* the path a gen-1 depot manifest of the build is stored at
V1DepotPath(manifest_id) ==
    SaveRawDepotManifest(V1DepotUrl(GameId, Platform, "R1", manifest_id))

\* C9 as stated: an archive run of the gen-1 build, whose two depot
\* manifests refer to the same blob url, starts the block download of the
\* blob exactly once and stores both depot manifests.
C9_BlobDownloadedExactlyOnce ==
    (arch_pc = "idle" /\ last_target = "B1" /\ clean)
    => /\ blob_starts = 1
       /\ \A m \in Range(DocDepots("repository_R1")) : V1DepotPath(m) \in DOMAIN files

\* C9: an archive run of the gen-1 build, whose two depot manifests refer to
\* the same blob url, starts the block download of the blob at most once,
\* and exactly once when every request is answered and no blob file was on
\* disk when the run began; every depot manifest that was fetched is stored.
C9_BlobDownloadedAtMostOnce ==
    /\ blob_starts <= 1
    /\ (arch_pc = "idle" /\ last_target = "B1" /\ clean /\ fresh) => blob_starts = 1
    /\ \A m \in DOMAIN v1_data :
          v1_data[m] # NoValue =>
             /\ V1DepotPath(m) \in DOMAIN files
             /\ files[V1DepotPath(m)].doc = v1_data[m]

\* C9 witness: a finished run that fetched both depot manifests and
\* downloaded the blob they share, once
C9_Witness ==
    /\ arch_pc = "idle"
    /\ last_target = "B1"
    /\ DOMAIN v1_data = {"m1.json", "m2.json"}
    /\ blob_outcome = "archived"
    /\ blob_starts = 1
    /\ blob_bytes = blob_data

\* C10: a gen-2 depot manifest whose fetch succeeded is stored under
\* manifests/v2/depots/ or manifests/v2/meta/ at its galaxy path, and the
\* manifests-only check, the chunk scan, the validator and the extractor
\* all find it at the path it was written to.
C10_DepotManifestRoundTrip ==
    \A manifest_id \in DOMAIN stored_v2 :
        /\ stored_v2[manifest_id] \in {DepotsPath(manifest_id), MetaPath(manifest_id)}
        /\ ManifestOnlyExists(files, manifest_id)
        /\ ChunkScanPath(files, manifest_id) = stored_v2[manifest_id]
        /\ ValidatorPath(files, manifest_id) = stored_v2[manifest_id]
        /\ FindV2Manifest(files, manifest_id) = stored_v2[manifest_id]

\* the result of the last validation for a build, when it has one
Validated(build) ==
    /\ validation.done
    /\ BuildKey(build.game_id, build.build_id, build.platform)
           \in DOMAIN validation.build_results

ResultOf(build) ==
    validation.build_results[BuildKey(build.game_id, build.build_id, build.platform)]

\* the blob holds, at the offset of a file record, size bytes with the MD5
\* the record gives
FileRecordGood(f) ==
    /\ blob_exists
    /\ Len(ReadAt(blob_bytes, f.offset, f.size)) = f.size
    /\ Digest(ReadAt(blob_bytes, f.offset, f.size)) = FileHash(f)

\* C11: validate reports the gen-1 build as passed (success, counted in
\* validation_passed) only if every file record of every depot manifest of
\* the build is good in the blob; an MD5 mismatch or a short read makes the
\* build's result a failure.
C11_V1ValidationVerdict ==
    (Validated(Build1) /\ ResultOf(Build1).success)
    => \A m \in Range(DocDepots(BuildDoc(Build1.cdn_url))) :
           \A f \in DocFiles(DepotDoc(m)) : FileRecordGood(f)

\* every depot manifest the gen-2 build manifest lists is found on disk
AllDepotsFound ==
    \A m \in Range(DocDepots(BuildDoc(Build2.cdn_url))) : ValidatorPath(files, m) # NoPath

\* every chunk the gen-2 build refers to is in the store with MD5 = name
AllChunksGood ==
    \A h \in Build2Chunks : ValidateChunkExistsWithHash(chunks, h)

\* C12 as stated: the gen-2 build passes if and only if every depot manifest
\* is present and every chunk is good, and chunks_validated + chunks_failed
\* is the number of chunks the build refers to.
C12_V2ValidationVerdict ==
    Validated(Build2)
    => /\ ResultOf(Build2).success <=> (AllDepotsFound /\ AllChunksGood)
       /\ ResultOf(Build2).chunks_validated + ResultOf(Build2).chunks_failed
              = Cardinality(Build2Chunks)

\* C12: the gen-2 build passes if and only if its build manifest is on
\* disk, every depot manifest it lists is found under manifests/v2/depots
\* or manifests/v2/meta, and every chunk of those manifests is in the store
\* with MD5 equal to its name; chunks_validated + chunks_failed is the sum,
\* over the listed depot manifests found on disk, of the number of distinct
\* chunks each one refers to.
C12_V2ValidationVerdictPerDepot ==
    Validated(Build2)
    => LET have == Build2.archive_path \in DOMAIN files
           depots == DocDepots(BuildDoc(Build2.cdn_url))
           found == {i \in DOMAIN depots : ValidatorPath(files, depots[i]) # NoPath}
       IN /\ ResultOf(Build2).success <=> (have /\ AllDepotsFound /\ AllChunksGood)
          /\ ResultOf(Build2).chunks_validated + ResultOf(Build2).chunks_failed
                 = IF have
                   THEN SumFn([i \in found |-> Cardinality(DocChunks(DepotDoc(depots[i])))])
                   ELSE 0

\* C12 witness: a validation of the gen-2 build that found both depot
\* manifests and failed on one chunk, which both of them refer to
C12_Witness ==
    /\ Validated(Build2)
    /\ AllDepotsFound
    /\ ~ResultOf(Build2).success
    /\ ResultOf(Build2).chunks_failed = 2
    /\ ResultOf(Build2).chunks_validated = 1

\* C13: a validate run creates, modifies or deletes no file or directory
\* under the archive root and leaves the Build Index unchanged.
C13_ValidatorReadOnly ==
    [][(\E build_id \in {"B1", RepositoryId, NoValue} : Validate(build_id))
       => UNCHANGED <<files, chunks, blob_exists, blob_bytes, json, xml, database, dirs>>]_vars

\* the class the running (or last) repair call has put a chunk in
ClassOf(h) ==
    IF h \in repair_stats.ok THEN "ok"
    ELSE IF h \in repair_stats.missing THEN "missing"
    ELSE "corrupted"

\* C14: the repair call classifies a chunk as ok only if its file exists
\* with MD5 equal to the chunk name, a missing file as missing and an
\* existing file with other content as corrupted; total_chunks_found is
\* chunks_verified_ok + chunks_missing + chunks_corrupted.
C14_ChunkClassification ==
    /\ \A h \in repair_stats.ok \cup repair_stats.missing \cup repair_stats.corrupted :
          ClassOf(h) = IF h \notin DOMAIN repair_stats.before THEN "missing"
                       ELSE IF MD5(repair_stats.before[h]) = h THEN "ok"
                       ELSE "corrupted"
    /\ repair_stats.done =>
          repair_stats.total_chunks_found
              = Cardinality(repair_stats.ok) + Cardinality(repair_stats.missing)
                + Cardinality(repair_stats.corrupted)

\* C15: when exactly one chunk of the archived gen-2 repository is missing
\* from the store, the repair call downloads that chunk and no other, writes
\* no other chunk file, and once it has returned without errors the gen-2
\* validation of the build passes.
C15_RepairOneMissingChunk ==
    \A h \in Build2Chunks :
        (/\ repair_stats.done
         /\ Build2.archive_path \in DOMAIN files
         /\ AllDepotsFound
         /\ h \notin DOMAIN repair_stats.before
         /\ \A k \in Build2Chunks \ {h} :
                ValidateChunkExistsWithHash(repair_stats.before, k)
         /\ chunk_result.errors = {})
        => /\ chunk_result.ok = {h}
           /\ \A k \in DOMAIN repair_stats.before : chunks[k] = repair_stats.before[k]
           /\ ValidateV2Build(files, chunks, Build2).success

\* the last extraction was of this build and returned its results
Extracted(build_id) ==
    /\ extraction.done
    /\ ~extraction.raised
    /\ extraction.build_id = build_id

\* the file records of the depot manifests of the gen-1 build
Build1Files ==
    UNION {DocFiles(DepotDoc(m)) : m \in Range(DocDepots(BuildDoc(Build1.cdn_url)))}

\* C16: after extract of the gen-1 build, with checksum verification on or
\* off, every file in the output tree at the path of a file record of the
\* build's depot manifests has the MD5 the record gives.
C16_V1ExtractionRoundTrip ==
    Extracted("B1")
    => \A f \in Build1Files :
           StripSlash(f.path) \in DOMAIN out_files
           => Digest(out_files[StripSlash(f.path)]) = FileHash(f)

\* the DepotFile items of the depot manifests of the gen-2 build that the
\* extractor finds on disk
Build2Items ==
    UNION {{item \in Range(DocItems(DepotDoc(m))) : item.type = "DepotFile"} :
              m \in {m \in Range(DocDepots(BuildDoc(Build2.cdn_url))) :
                        FindV2Manifest(files, m) # NoPath}}

\* the inflated chunks of the store, joined in the order given
RECURSIVE JoinChunks(_)
JoinChunks(hs) ==
    IF hs = << >> THEN << >> ELSE Inflate(chunks[Head(hs)]) \o JoinChunks(Tail(hs))

\* C17: with checksum verification on, extract writes the output file of a
\* DepotFile item only if every chunk of the item is in the store, has MD5
\* equal to its compressedMd5, inflates to the recorded size and to data
\* with the recorded md5; the file holds the inflated chunks joined in
\* manifest order.
C17_V2VerifiedExtraction ==
    (Extracted(RepositoryId) /\ extraction.verify_checksums)
    => \A item \in Build2Items :
           item.path \in extraction.written
           => /\ \A h \in Range(item.chunks) :
                    /\ h \in DOMAIN chunks
                    /\ MD5(chunks[h]) = h
                    /\ CanInflate(chunks[h])
                    /\ Len(Inflate(chunks[h])) = UncompressedSize(h)
                    /\ Digest(Inflate(chunks[h])) = ChunkMd5(h)
              /\ out_files[item.path] = JoinChunks(item.chunks)

\* C17 witness: a verified extraction of the gen-2 build that wrote y.dat
\* and refused bin/x.dat, one of whose chunks holds other bytes
C17_Witness ==
    /\ Extracted(RepositoryId)
    /\ extraction.verify_checksums
    /\ "y.dat" \in extraction.written
    /\ "bin/x.dat" \notin extraction.written
    /\ "aa11" \in DOMAIN chunks
    /\ MD5(chunks["aa11"]) # "aa11"

\* the file records the last extraction walked, each with its path and
\* whether it fails: a chunk that is missing or does not inflate, a blob
\* read that comes back short, and, when checksums are verified, a chunk or
\* a file whose bytes do not have the recorded MD5 or size
WalkedRecords ==
    IF extraction.version = 2
    THEN {[path |-> item.path,
           failed |-> \E h \in Range(item.chunks) :
                         \/ h \notin DOMAIN chunks
                         \/ ~CanInflate(chunks[h])
                         \/ /\ extraction.verify_checksums
                            /\ \/ MD5(chunks[h]) # h
                               \/ Len(Inflate(chunks[h])) # UncompressedSize(h)
                               \/ Digest(Inflate(chunks[h])) # ChunkMd5(h)] :
             item \in Build2Items}
    ELSE {[path |-> StripSlash(f.path),
           failed |-> \/ Len(ReadAt(blob_bytes, f.offset, f.size)) # f.size
                      \/ /\ extraction.verify_checksums
                         /\ Digest(ReadAt(blob_bytes, f.offset, f.size)) # FileHash(f)] :
             f \in UNION {DocFiles(DepotDoc(m)) :
                     m \in {m \in Range(DocDepots(BuildDoc(Build1.cdn_url))) :
                               V1DepotManifestPath(Build1, m) \in DOMAIN files}}}

C19_BuildIndexAtomicWrite ==
    /\ database.exists => database.complete
    /\ save_pc.at # "idle" => database \in {save_pc.previous, SaveDatabase(archived_builds)}

\* C20: under every interleaving of the chunk download workers, and when a
\* worker crashes in mid-write, the hash-named path of a chunk does not
\* exist or holds a whole payload; a partly written payload is never at the
\* final path.
C20_RaceSafeChunkWrites ==
    \A h \in DOMAIN chunks : chunks[h] \notin PartialContents

\* C21: once a Build Record exists for a key, no later operation changes its
\* build_hash, archive_path, source URL, generation or repository_id; only
\* the version label and the tags may change.
C21_BuildRecordImmutable ==
    [][\A k \in (DOMAIN archived_builds) \cap (DOMAIN archived_builds') :
          /\ archived_builds'[k].build_hash = archived_builds[k].build_hash
          /\ archived_builds'[k].archive_path = archived_builds[k].archive_path
          /\ archived_builds'[k].cdn_url = archived_builds[k].cdn_url
          /\ archived_builds'[k].version = archived_builds[k].version
          /\ archived_builds'[k].repository_id = archived_builds[k].repository_id]_vars

\* the gen-1 build whose blob the archive call has written
BlobBuild == CHOOSE b \in Range(arch_builds) \cup {Build1} :
                 arch_builds # << >> => b = Head(arch_builds)

\* C22: for every gen-1 build the archiver writes the blob to
\* blobs/<repository_id>/main.bin, and the validator and the extractor locate
\* it at blobs/<repository_id>/main.bin, falling back to
\* blobs/<build_id>/main.bin, so that the blob written is the blob read.
C22_BlobPathKey ==
    (blob_exists /\ blob_path # NoPath) =>
        /\ blob_path = "blobs/" \o BlobBuild.repository_id \o "/main.bin"
        /\ ValidatorBlobPath(BlobBuild, BlobBuild.repository_id) = blob_path
        /\ ExtractorBlobPath({blob_path}, BlobBuild.game_id, BlobBuild.build_id) = blob_path

\* C23: the path codec is injective: two distinct URLs that are fetched and
\* stored go to distinct paths, so that storing the body of one URL never
\* replaces the stored body of another.
C23_CodecInjective ==
    [][\A p \in DOMAIN files :
          p \in DOMAIN files' => files'[p].doc = files[p].doc]_vars

\* C24: build manifests are stored verbatim: the file of every build that
\* archive_build has ingested holds the bytes the source URL sent, and
\* build_hash is the SHA-256 of those bytes.
C24_BuildManifestVerbatim ==
    \A k \in DOMAIN archived_builds :
        LET build == archived_builds[k]
        IN build.archive_path \in DOMAIN files =>
              /\ files[build.archive_path].form = "raw"
              /\ build.build_hash = Sha256(DocBytes(files[build.archive_path].doc, "raw"))

\* the listings that were answered in the last list_builds call
AnsweredListings == {b.generation_queried : b \in listed}

\* C25: when a build id is in the generation-1 and the generation-2 listing
\* of the platform, archive_build ingests the generation-1 entry, and
\* list_builds returns one entry for it, the one with a /v1/manifests/ link
\* whenever a listing it was given has such an entry.
C25_Gen1Precedence ==
    /\ (/\ arch_pc = "content"
        /\ clean
        /\ "build_manifest" \in wrote
        /\ \A g \in 1..2 : \E b \in BuildsItems(g) : b.build_id = arch_target)
       => \A i \in 1..Len(arch_builds) :
              \E b \in BuildsItems(1) :
                  /\ b.build_id = arch_target
                  /\ arch_builds[i].cdn_url = b.link
    /\ \A a, b \in listed : a.build_id = b.build_id => a = b
    /\ \A a \in listed :
          (\E g \in AnsweredListings : \E b \in BuildsItems(g) :
               b.build_id = a.build_id /\ Contains(b.link, "/v1/manifests/"))
          => Contains(a.link, "/v1/manifests/")

\* the build of both listings was ingested with both listings answered, and
\* a call of list_builds that was given both listings has returned
C25_Witness ==
    /\ arch_pc = "content"
    /\ arch_target = "B3"
    /\ clean
    /\ "build_manifest" \in wrote
    /\ Len(arch_builds) = 1
    /\ AnsweredListings = {1, 2}
    /\ \E a \in listed : a.build_id = "B3" /\ a.version = 1

\* C26: the blocks of a blob are written and recorded in ascending block-id
\* order: the queue of a run is strictly ascending, and at every point of
\* every run, first or resumed, the block ids listed in the sidecar are
\* 0..k-1 for some k.
C26_AscendingPrefix ==
    /\ \A i, j \in 1..Len(chunks_to_download) :
          i < j => chunks_to_download[i] < chunks_to_download[j]
    /\ \A id \in DOMAIN json.chunk_hashes :
          \A lower \in 0..(id - 1) : lower \in DOMAIN json.chunk_hashes

\* C27: when a run resumes on an existing blob file and sidecar, every block
\* whose on-disk byte range is entirely zero is in the download queue, also
\* when the sidecar lists it as validated.
C27_ResumeRecheck ==
    (pc = "get" /\ qi = 1 /\ blob_exists /\ json.exists)
    => \A id \in 0..(TotalChunks(expected_size) - 1) :
          ReadAt(blob_bytes, ChunkStart(id), ActualChunkSize(id, expected_size))
             = Zeros(ActualChunkSize(id, expected_size))
          => id \in Range(chunks_to_download)

\* a step of the gen-2 walk in which the fetch of a depot manifest has
\* failed, or the chunk download of a depot manifest has returned with a
\* failed chunk
V2FetchFailed ==
    \/ /\ arch_pc = "v2"
       /\ arch_pc' = "v2"
       /\ arch_depots # << >>
       /\ arch_depots' = Tail(arch_depots)
    \/ /\ arch_pc = "chunks"
       /\ arch_pc' = "v2"
       /\ chunk_result.errors # {}

\* C28: when the fetch of a depot manifest or of a chunk of a gen-2 build
\* fails, the result of archive_build holds an error for it, and the walk
\* goes on with the remaining depot manifests of the build.
C28_FetchFailuresSurfaced ==
    [][V2FetchFailed => /\ arch_errors' # {}
                        /\ arch_pc' = "v2"
                        /\ arch_depots' = Tail(arch_depots)]_vars

\* the build record the full archive walk makes for the target of a
\* manifests-only call
FullWalkBuild(mode, target) ==
    IF mode = "repository" THEN Build2
    ELSE IF target = "B1" THEN Build1 ELSE Build2ById

\* the manifest files the full archive walk stores for that target when
\* every request is answered: the build manifest and the depot manifests
\* it lists
FullWalkManifests(mode, target) ==
    LET build == FullWalkBuild(mode, target)
    IN {build.archive_path}
       \cup {OnlyRawPath(build, m) : m \in Range(DocDepots(BuildDoc(build.cdn_url)))}

\* a manifests-only call, by build id or by repository id
ManifestsOnlyCall ==
    \/ \E build_id \in {"B1", "B2"}, list1_ok, link_ok \in BOOLEAN,
          failed \in FailedDepots :
          ArchiveBuildAndDepotManifestsOnly(build_id, list1_ok, TRUE, link_ok, failed)
    \/ \E ok \in BOOLEAN, failed \in FailedDepots :
          ArchiveRepositoryAndDepotManifestsOnly(RepositoryId, 2, ok, failed)

\* C29: a manifests-only call, by build id or by repository id, leaves the
\* chunk store and the blob as they are and starts no chunk or blob
\* download, and when every request it makes is answered the build manifest
\* and the depot manifests that the full archive walk stores for its target
\* are on disk after it.
C29_ManifestsOnly ==
    [][ManifestsOnlyCall
        => /\ UNCHANGED <<chunks, blob_exists, blob_bytes, json, xml>>
           /\ chunk_run' = "idle"
           /\ pc' = "idle"
           /\ only_call'.answered
              => FullWalkManifests(only_call'.mode, only_call'.target)
                    \subseteq DOMAIN files']_vars

\* the extract command run with --dry-run
DryRunExtract ==
    \E build_id \in ExtractTargets, verify_checksums \in BOOLEAN :
        Extract(build_id, verify_checksums, TRUE)

\* C30: an extract command run with --dry-run creates or modifies no file
\* in the output directory
C30_ExtractDryRun == [][DryRunExtract => out_files' = out_files]_vars

\* extract of the gen-2 build archived by build id
ExtractB2 == Extract("B2", FALSE, FALSE)

\* the depot manifests of the build the Build Index holds under this id
\* whose stored bytes the extractor finds
FoundDepots(build_id) ==
    LET key == BuildKey(GameId, build_id, Platform)
        builds == LoadDatabase(database)
    IN IF key \in DOMAIN builds /\ builds[key].archive_path \in DOMAIN files
       THEN {m \in Range(DocDepots(files[builds[key].archive_path].doc)) :
                FindV2Manifest(files, m) # NoPath}
       ELSE {}

\* C31: every build manifest and gen-2 depot manifest the archiver accepted
\* and stored, whether it came gzip-encoded, zlib-encoded or as plain JSON,
\* is loaded by the extractor: an extraction of the archived build loads the
\* build manifest and reports no depot manifest it found as unreadable.
C31_EncodingsReadUniformly ==
    [][(ExtractB2 /\ BuildKey(GameId, "B2", Platform) \in DOMAIN LoadDatabase(database))
        => /\ ~extraction'.raised
           /\ \A i \in 1..Len(extraction'.errors) :
                 ~(/\ extraction'.errors[i].kind = "Error processing V2 depot"
                   /\ extraction'.errors[i].about \in FoundDepots("B2"))]_vars

\* the ranged GET of the block in progress is answered with a status other
\* than 200/206 or with a body of another length
BlockFails == \E resp \in GetResponses \ {"ok"} : GetChunk(resp)

\* C32: when the GET of a block fails by status or by length, nothing is
\* written to the blob, the block is not added to the sidecar, the run ends
\* there with failure, and every block the sidecar recorded stays recorded.
C32_BlockFailurePolicy ==
    [][BlockFails
        => /\ blob_bytes' = blob_bytes
           /\ blob_exists' = blob_exists
           /\ CurrentChunk \in DOMAIN json'.chunk_hashes
                 => CurrentChunk \in DOMAIN json.chunk_hashes
           /\ pc' = "idle"
           /\ blob_outcome' = "failed"
           /\ DOMAIN json.chunk_hashes \subseteq DOMAIN json'.chunk_hashes]_vars

\* C33: for a blob of total_size > 0 bytes, total_chunks is total_size
\* divided by the block size rounded up, the byte ranges of blocks
\* 0..total_chunks-1 are contiguous from 0 to total_size - 1 without
\* overlap, each is 1 to one block size long, and every queued block is one
\* of them: no block of length zero is queued.
C33_BlockPartition ==
    (pc # "idle" /\ expected_size > 0)
    => LET n == TotalChunks(expected_size)
       IN /\ (n - 1) * ChunkSize < expected_size
          /\ expected_size <= n * ChunkSize
          /\ ChunkStart(0) = 0
          /\ \A id \in 0..(n - 2) :
                ChunkEnd(id, expected_size) + 1 = ChunkStart(id + 1)
          /\ ChunkEnd(n - 1, expected_size) = expected_size - 1
          /\ \A id \in 0..(n - 1) :
                /\ ActualChunkSize(id, expected_size) >= 1
                /\ ActualChunkSize(id, expected_size) <= ChunkSize
          /\ \A i \in 1..Len(chunks_to_download) :
                /\ chunks_to_download[i] \in 0..(n - 1)
                /\ ActualChunkSize(chunks_to_download[i], expected_size) >= 1

\* C33 witness: a run on a blob of exactly two blocks with both queued
C33_Witness ==
    /\ pc = "get"
    /\ expected_size = 2 * ChunkSize
    /\ chunks_to_download = <<0, 1>>

\* the content walk of the next build starts and finds its build manifest
\* on disk
ContentStartOnManifest ==
    /\ ContentStart
    /\ Head(arch_builds).archive_path \in DOMAIN files

\* C34: the depot manifests the archive walk of a build fetches are exactly
\* the manifest values of the entries of depots (gen 2) or product.depots
\* (gen 1) that have a manifest field; entries without one are skipped
\* without failing the walk, and the offlineDepot manifest is not fetched.
C34_DepotTraversal ==
    [][ContentStartOnManifest
        => LET doc == files[Head(arch_builds).archive_path].doc
               depots == DocDepotEntries(doc)
           IN /\ arch_pc' \in {"v1", "v2"}
              /\ arch_errors' = arch_errors
              /\ Range(arch_depots')
                    = {depots[i].manifest : i \in {i \in 1..Len(depots) :
                                                     HasManifest(depots[i])}}
              /\ DocOfflineDepot(doc) \notin Range(arch_depots')]_vars

\* save_database ends in a process that holds what it loaded from the
\* document the save replaces
SaveLoaded ==
    /\ SaveClose
    /\ save_pc.previous.exists
    /\ save_pc.previous.complete
    /\ archived_builds = LoadDatabase(save_pc.previous)

\* C35: loading an index document and saving it again loses no record: every
\* record of the loaded document that can be parsed, with current keys or
\* with the legacy keys chunks_referenced and manifest_hash, is in the saved
\* document under the same key with the same persisted field values, also
\* when another record of the document cannot be parsed.
C35_IndexRoundTrip ==
    [][SaveLoaded
        => LET rows == save_pc.previous.builds
           IN \A i \in 1..Len(rows) :
                 ~BuildDataRaises(rows[i])
                    => ParseBuildData(rows[i]) \in Range(database'.builds)]_vars

\* the books of _download_v2_chunks: no chunk is counted twice, a counted
\* chunk is not queued any more, a chunk a worker is writing is still queued,
\* a queued chunk that no worker has requested yet is not a valid chunk of
\* the store, and a call that has returned left no chunk queued or in flight
PoolBooked ==
    /\ chunk_result.ok \cap chunk_result.errors = {}
    /\ (chunk_result.ok \cup chunk_result.errors) \cap chunk_todo = {}
    /\ DOMAIN writers \subseteq chunk_todo
    /\ chunk_run = "pool"
          => \A h \in chunk_todo \ DOMAIN writers :
                ~ValidateChunkExistsWithHash(chunks, h)
    /\ chunk_run = "idle" => chunk_todo = {} /\ writers = NoWriters

\* a worker sends the request for chunk h
PoolRequests(h) ==
    \/ \E resp \in WriteResponses : WorkerOpen(h, resp)
    \/ WorkerError(h)

\* a chunk is requested while it is queued, not valid, not counted and not
\* requested before; the call returns with every queued chunk counted
PoolRequestsOnce ==
    /\ \A h \in ChunkIds :
          PoolRequests(h)
             => /\ ~ValidateChunkExistsWithHash(chunks, h)
                /\ h \in chunk_todo \ DOMAIN writers
                /\ h \notin chunk_result.ok \cup chunk_result.errors
    /\ PoolFinish
          => /\ chunk_todo = {}
             /\ writers = NoWriters
             /\ chunk_result' = chunk_result

\* C36 as stated: for every set of referenced chunks and every interleaving
\* of the workers, a chunk that is present with a matching MD5 is never
\* requested, every other referenced chunk is queued and requested exactly
\* once, and when the call returns each requested chunk is counted exactly
\* once, in chunks_archived or as one entry of errors.
C36_ChunkPoolAccountingAlways ==
    [][/\ PoolBooked'
       /\ PoolRequestsOnce
       /\ \A S \in (SUBSET ChunkIds) \ {{}}, link_ok \in BOOLEAN :
             PoolStart(S, link_ok)
                => /\ chunk_todo' = {h \in S : ~ValidateChunkExistsWithHash(chunks, h)}
                   /\ chunk_result' = NoResult]_vars

\* C36: chunk pool accounting holds for every call that obtains the secure
\* link: a valid chunk is never requested, every other referenced chunk is
\* requested exactly once and counted exactly once when the call returns; a
\* call that has chunks to download and obtains no secure link requests no
\* chunk and returns one error that is about no chunk.
C36_ChunkPoolAccounting ==
    [][/\ PoolBooked'
       /\ PoolRequestsOnce
       /\ \A S \in (SUBSET ChunkIds) \ {{}}, link_ok \in BOOLEAN :
             PoolStart(S, link_ok)
                => LET todo == {h \in S : ~ValidateChunkExistsWithHash(chunks, h)}
                   IN IF link_ok \/ todo = {}
                      THEN /\ chunk_todo' = todo
                           /\ chunk_result' = NoResult
                      ELSE /\ chunk_todo' = {}
                           /\ chunk_run' = "idle"
                           /\ chunk_result'.ok = {}
                           /\ chunk_result'.errors = {SecureLinkError}]_vars

\* a call has returned with one chunk downloaded and one failed, while a
\* valid chunk of an earlier call was left alone
C36_Witness ==
    /\ chunk_run = "idle"
    /\ chunk_result.ok # {}
    /\ chunk_result.errors \cap ChunkIds # {}
    /\ \E h \in ChunkIds \ (chunk_result.ok \cup chunk_result.errors) :
          ValidateChunkExistsWithHash(chunks, h)

\* C37: when a build manifest is ingested from a URL with no /v1/ or /v2/
\* marker that is not a collector builds URL (the repository URLs of
\* archive_repository_build_manifests), the raw bytes are stored under the
\* root-level file name and a Build Record pointing to that file is created:
\* ingestion leaves no stored manifest file without a Build Record.
C37_UnknownUrlFallback ==
    [][\A repository_id \in RepositoryIds, repository_version \in RepositoryVersions :
          (/\ ArchiveRepositoryBuildManifests(repository_id, repository_version, TRUE)
           /\ files' # files)
             => LET url == RepositoryApiUrl(GameId, Platform, repository_id,
                                           repository_version)
                    root_path == "builds/" \o LastSegment(url)
                IN /\ root_path \in DOMAIN files'
                   /\ \E k \in DOMAIN archived_builds' :
                         /\ archived_builds'[k].archive_path = root_path
                         /\ archived_builds'[k].cdn_url = url]_vars

\* C38: after any sequence of archive, manifests-only archive and metadata
\* sync calls, every Build Record has a non-empty archive_path that names a
\* stored build manifest file, and archive_build never goes on to the content
\* of a build whose build manifest is not on disk.
C38_RecordsOnlyForIngested ==
    /\ \A k \in DOMAIN archived_builds :
          /\ archived_builds[k].archive_path # ""
          /\ archived_builds[k].archive_path \in DOMAIN files
    /\ (arch_pc = "content" /\ arch_builds # << >>)
          => Head(arch_builds).archive_path \in DOMAIN files

\* C39: when archive_build(product, build_id, platforms) returns without
\* errors, the index holds a Build Record for every requested platform on
\* which the server lists the build, also when a record of the build on
\* another platform existed before the call.
C39_PlatformsHonoured ==
    [][(ArchiveFinish /\ arch_errors = {})
        => \A platform \in arch_platforms :
              ListedOn(arch_target, platform)
                 => /\ BuildKey(GameId, arch_target, platform) \in DOMAIN archived_builds'
                    /\ BuildKey(GameId, arch_target, platform)
                          \in DOMAIN LoadDatabase(database')]_vars

\* the output directory extract is given
OutputDir == "out"

\* the parts of a path between its slashes
RECURSIVE PathParts(_)
PathParts(path) ==
    LET i == Find(path, "/", 1)
    IN IF i = 0 THEN <<path>>
       ELSE <<SubSeq(path, 1, i - 1)>> \o PathParts(SubSeq(path, i + 1, Len(path)))

\* the place a path names once the file system has followed its parts: the
\* root or the working directory it starts from, how many levels it climbs
\* above the working directory, and the directories it goes down from there
ResolvePath(path) ==
    LET parts == PathParts(path)
        absolute == Len(path) > 0 /\ SubSeq(path, 1, 1) = "/"
        F[i \in 0..Len(parts)] ==
            IF i = 0 THEN [absolute |-> absolute, up |-> 0, down |-> << >>]
            ELSE IF parts[i] \in {"", "."} THEN F[i - 1]
            ELSE IF parts[i] = ".."
            THEN IF F[i - 1].down # << >>
                 THEN [F[i - 1] EXCEPT !.down = SubSeq(@, 1, Len(@) - 1)]
                 ELSE IF absolute THEN F[i - 1]
                 ELSE [F[i - 1] EXCEPT !.up = @ + 1]
            ELSE [F[i - 1] EXCEPT !.down = Append(@, parts[i])]
    IN F[Len(parts)]

\* the file at path is located inside the directory dir
IsInside(dir, path) ==
    LET d == ResolvePath(dir)
        f == ResolvePath(path)
    IN /\ f.absolute = d.absolute
       /\ f.up = d.up
       /\ Len(f.down) > Len(d.down)
       /\ SubSeq(f.down, 1, Len(d.down)) = d.down

\* C40: extraction is confined to the output directory: for every file
\* record path of a depot manifest, also one that starts with more than one
\* slash or has parent-directory segments, every file the extractor writes
\* is located inside the output directory.
C40_ExtractionConfined ==
    \A file_path \in DOMAIN out_files :
        IsInside(OutputDir, OutputFilePath(OutputDir, file_path))

====
